---- MODULE Spec2Model ----
(***************************************************************************)
(* Model of the report parser of Corner-AI (lib/report-parser): timestamp  *)
(* extraction, Markdown section parsing, finding and strength extraction,  *)
(* the overall assessment, the decision tree, the priority improvements,   *)
(* the opponent game plan and the assembly of the whole report.            *)
(* Text is a TLA+ string; every regular expression of the source is        *)
(* written out as the character scan it performs.  JavaScript offsets are  *)
(* 0-based, the offsets below are 1-based.  The input alphabet is ASCII:   *)
(* the bullet character U+2022 of the source's bullet class is not part of *)
(* any input.                                                              *)
(***************************************************************************)
EXTENDS Integers, Sequences, FiniteSets, TLC

VARIABLES
    pc,          \* which exported function has been applied to the input
    parts,       \* the pieces (tokens or lines) the input was composed from
    text,        \* the input string (markdown / rawContent)
    timestamps,  \* result of extractTimestamps(text)
    sections,    \* result of parseReportSections(text)
    reparsed,    \* result of parseReportSections on a section written back
    picked,      \* the section that was written back, and in which form
    findings,    \* result of extractFindings(sections, text)
    strengths,   \* result of extractStrengths(sections, text)
    uuid,        \* number of identifiers crypto.randomUUID has handed out
    assessment,  \* result of extractOverallAssessment(sections, text)
    nodes,       \* result of extractDecisionTree(sections)
    reports,     \* results of the calls of parseSelfScoutReport(text), in order
    clock        \* the time new Date() reads

\* the state of the loop of parseReportSections while it runs
VARIABLES
    currentSection,  \* <<>> for null, else <<the section being accumulated>>
    lineNo           \* number of lines the loop has consumed

loopVars == <<currentSection, lineNo>>

\* the state of the hook useSelfScout and of the call it awaits
VARIABLES
    report,       \* <<>> for null, else <<the report>>
    isAnalyzing,
    error,        \* <<>> for null, else <<the Error>>
    progress,     \* stage, message, percent
    storage,      \* <<>> or <<the item stored under STORAGE_KEY>>
    input,        \* the argument of analyze
    calls,        \* how many times analyze has been called
    options,      \* the argument of generateReportFromTemplate
    effects,      \* what generateReportFromTemplate has done: inputs validated,
                  \* files read, model calls made
    thrown        \* <<>>, else <<the value a call threw or rejected with>>

hookVars == <<report, isAnalyzing, error, progress, storage, input, calls, options, effects,
              thrown>>

vars == <<pc, parts, text, timestamps, sections, reparsed, picked, findings, strengths, uuid,
          assessment, nodes, reports, clock, loopVars, hookVars>>

----------------------------------------------------------------------------
\* Evaluation helpers

\* F(v): names an intermediate value (a const of the source) once
Bind(v, F(_)) == F(v)

\* k, or d when k is 0 (a search that found nothing)
OrElse(k, d) == IF k = 0 THEN d ELSE k

\* least k in lo..hi with P(k), 0 when there is none (halving keeps the
\* evaluation shallow on long strings)
RECURSIVE FirstWhere(_, _, _)
FirstWhere(P(_), lo, hi) ==
    IF lo > hi THEN 0
    ELSE IF lo = hi THEN (IF P(lo) THEN lo ELSE 0)
    ELSE Bind(FirstWhere(P, lo, (lo + hi) \div 2),
              LAMBDA l : IF l > 0 THEN l ELSE FirstWhere(P, (lo + hi) \div 2 + 1, hi))

\* greatest k in lo..hi with P(k), 0 when there is none
RECURSIVE LastWhere(_, _, _)
LastWhere(P(_), lo, hi) ==
    IF lo > hi THEN 0
    ELSE IF lo = hi THEN (IF P(lo) THEN lo ELSE 0)
    ELSE Bind(LastWhere(P, (lo + hi) \div 2 + 1, hi),
              LAMBDA r : IF r > 0 THEN r ELSE LastWhere(P, lo, (lo + hi) \div 2))

\* F(lo) \o ... \o F(hi)
RECURSIVE ConcatMap(_, _, _)
ConcatMap(F(_), lo, hi) ==
    IF lo > hi THEN ""
    ELSE IF lo = hi THEN F(lo)
    ELSE ConcatMap(F, lo, (lo + hi) \div 2) \o ConcatMap(F, (lo + hi) \div 2 + 1, hi)

----------------------------------------------------------------------------
\* String primitives

\* s[i-1] of JavaScript, "" outside the string
Ch(s, i) == IF i >= 1 /\ i <= Len(s) THEN SubSeq(s, i, i) ELSE ""

\* s.substring(a, b) for 0 <= a, with b clamped to the length
Substring(s, a, b) ==
    IF a >= b \/ a >= Len(s) THEN ""
    ELSE SubSeq(s, a + 1, IF b > Len(s) THEN Len(s) ELSE b)

\* the characters \s of a regular expression and of String.prototype.trim
IsWs(c) == c \in {" ", "\t", "\n", "\r"}

IsDigit(c) == c \in {"0", "1", "2", "3", "4", "5", "6", "7", "8", "9"}

DigitVal(c) ==
    CASE c = "0" -> 0 [] c = "1" -> 1 [] c = "2" -> 2 [] c = "3" -> 3
      [] c = "4" -> 4 [] c = "5" -> 5 [] c = "6" -> 6 [] c = "7" -> 7
      [] c = "8" -> 8 [] c = "9" -> 9

DigitStr(d) == Ch("0123456789", d + 1)

\* Number("07") = 7
RECURSIVE ParseNat(_)
ParseNat(s) ==
    IF Len(s) = 0 THEN 0
    ELSE 10 * ParseNat(SubSeq(s, 1, Len(s) - 1)) + DigitVal(Ch(s, Len(s)))

\* (n).toString() for n >= 0
RECURSIVE NatToStr(_)
NatToStr(n) == IF n < 10 THEN DigitStr(n) ELSE NatToStr(n \div 10) \o DigitStr(n % 10)

\* s.padStart(2, '0')
PadStart2(s) == IF Len(s) < 2 THEN "0" \o s ELSE s

\* offset of the first character at or after i that is not white space
SkipWs(s, i) ==
    IF i > Len(s) THEN i
    ELSE OrElse(FirstWhere(LAMBDA j : ~IsWs(Ch(s, j)), i, Len(s)), Len(s) + 1)

\* s.trim()
Trim(s) ==
    Bind(FirstWhere(LAMBDA j : ~IsWs(Ch(s, j)), 1, Len(s)),
         LAMBDA a : IF a = 0 THEN ""
                    ELSE SubSeq(s, a, LastWhere(LAMBDA j : ~IsWs(Ch(s, j)), 1, Len(s))))

UpperChars == "ABCDEFGHIJKLMNOPQRSTUVWXYZ"
LowerChars == "abcdefghijklmnopqrstuvwxyz"
LowerOf == [c \in {Ch(UpperChars, k) : k \in 1..26} |->
               Ch(LowerChars, CHOOSE k \in 1..26 : Ch(UpperChars, k) = c)]

LowerCh(c) == IF c \in DOMAIN LowerOf THEN LowerOf[c] ELSE c

\* s.toLowerCase()
ToLower(s) == ConcatMap(LAMBDA k : LowerCh(Ch(s, k)), 1, Len(s))

\* s.includes(kw)
Includes(s, kw) ==
    \E i \in 1..(Len(s) - Len(kw) + 1) : SubSeq(s, i, i + Len(kw) - 1) = kw

\* /kw1|kw2|.../.test(lower)
TestAny(lower, kws) == \E kw \in kws : Includes(lower, kw)

\* whether kw stands at offset i of s
StartsAt(s, i, kw) == i + Len(kw) - 1 <= Len(s) /\ SubSeq(s, i, i + Len(kw) - 1) = kw

\* s.split('\n')
RECURSIVE SplitNL(_)
SplitNL(s) ==
    Bind(FirstWhere(LAMBDA k : Ch(s, k) = "\n", 1, Len(s)),
         LAMBDA k : IF k = 0 THEN <<s>>
                    ELSE <<SubSeq(s, 1, k - 1)>> \o SplitNL(SubSeq(s, k + 1, Len(s))))

\* s.replace(/[\n\r]/g, ' ')
NewlinesToSpaces(s) ==
    ConcatMap(LAMBDA k : IF Ch(s, k) \in {"\n", "\r"} THEN " " ELSE Ch(s, k), 1, Len(s))

\* first and last offset of the run of '*' that holds offset k
StarRunStart(s, k) == LastWhere(LAMBDA j : Ch(s, j) # "*", 1, k) + 1
StarRunEnd(s, k) == OrElse(FirstWhere(LAMBDA j : Ch(s, j) # "*", k, Len(s)), Len(s) + 1) - 1

\* s.replace(/\*\*/g, ''): the leftmost non-overlapping pairs go, so a run of
\* '*' of odd length keeps its last character
StripBold(s) ==
    ConcatMap(LAMBDA k :
                 IF Ch(s, k) # "*" THEN Ch(s, k)
                 ELSE IF Ch(s, k + 1) # "*" /\ (k - StarRunStart(s, k) + 1) % 2 = 1 THEN "*"
                 ELSE "",
              1, Len(s))

----------------------------------------------------------------------------
\* Timestamp extraction

ContextRadius == 50
LabelLen == 40

\* length matched by \d{1,2}:\d{2} at offset i, 0 when it does not match
TimeLenAt(s, i) ==
    IF IsDigit(Ch(s, i)) /\ IsDigit(Ch(s, i + 1)) /\ Ch(s, i + 2) = ":"
          /\ IsDigit(Ch(s, i + 3)) /\ IsDigit(Ch(s, i + 4)) THEN 5
    ELSE IF IsDigit(Ch(s, i)) /\ Ch(s, i + 1) = ":"
          /\ IsDigit(Ch(s, i + 2)) /\ IsDigit(Ch(s, i + 3)) THEN 4
    ELSE 0

\* length matched by [\[\(](\d{1,2}:\d{2})(?:-\d{1,2}:\d{2})?[\]\)] at offset i,
\* 0 when it does not match: t is the length of the start time, r that of
\* the end time of a range
MarkerLenAt(s, i) ==
    IF Ch(s, i) \notin {"[", "("} THEN 0
    ELSE Bind(TimeLenAt(s, i + 1), LAMBDA t :
         IF t = 0 THEN 0
         ELSE Bind(IF Ch(s, i + 1 + t) = "-" THEN TimeLenAt(s, i + 2 + t) ELSE 0, LAMBDA r :
              IF r > 0 /\ Ch(s, i + 2 + t + r) \in {"]", ")"} THEN t + r + 3
              ELSE IF Ch(s, i + 1 + t) \in {"]", ")"} THEN t + 2
              ELSE 0))

\* offset of the leftmost match at or after i, 0 when there is none
NextMarker(s, i) == FirstWhere(LAMBDA k : MarkerLenAt(s, k) > 0, i, Len(s))

StrikingCtx == {"punch", "kick", "jab", "cross", "hook", "uppercut", "overhand",
                "elbow", "knee", "strike", "striking", "boxing"}
GrapplingCtx == {"takedown", "clinch", "submission", "guard", "mount", "choke",
                 "wrestling", "grappl", "ground", "back control", "half guard",
                 "side control"}
DefensiveCtx == {"block", "dodge", "slip", "parry", "defense", "defensive",
                 "head movement", "sprawl"}
PatternCtx == {"habit", "pattern", "always", "tends", "consistently", "every time",
               "predictable", "telegrap"}

\* faulty variant: the grappling keywords are tested first
categorizeGrapplingFirst(context) ==
    Bind(ToLower(context), LAMBDA lower :
         IF TestAny(lower, GrapplingCtx) THEN "grappling"
         ELSE IF TestAny(lower, StrikingCtx) THEN "striking"
         ELSE IF TestAny(lower, DefensiveCtx) THEN "defensive"
         ELSE IF TestAny(lower, PatternCtx) THEN "pattern"
         ELSE "other")

categorizeTimestampContext(context) ==
    Bind(ToLower(context), LAMBDA lower :
         IF TestAny(lower, StrikingCtx) THEN "striking"
         ELSE IF TestAny(lower, GrapplingCtx) THEN "grappling"
         ELSE IF TestAny(lower, DefensiveCtx) THEN "defensive"
         ELSE IF TestAny(lower, PatternCtx) THEN "pattern"
         ELSE "other")

\* `${mins}:${secs.toString().padStart(2, '0')}`
TimeStr(mins, secs) == NatToStr(mins) \o ":" \o PadStart2(NatToStr(secs))

\* text.substring(Math.max(0, index - 50), Math.min(text.length, index + 50))
\*     .replace(/[\n\r]/g, ' ').trim()     with index = i - 1
ContextAt(s, i) ==
    Trim(NewlinesToSpaces(
        Substring(s,
                  IF i - 1 - ContextRadius > 0 THEN i - 1 - ContextRadius ELSE 0,
                  IF i - 1 + ContextRadius < Len(s) THEN i - 1 + ContextRadius ELSE Len(s))))

\* context.substring(0, 40) + (context.length > 40 ? '...' : '')
LabelOf(context) ==
    Substring(context, 0, LabelLen) \o (IF Len(context) > LabelLen THEN "..." ELSE "")

\* the Timestamp pushed for the match at offset i, whose start time
\* (match[1]) has length t
TimestampAt(s, i, t) ==
    Bind(ParseNat(SubSeq(s, i + 1, i + t - 3)), LAMBDA mins :
    Bind(ParseNat(SubSeq(s, i + t - 1, i + t)), LAMBDA secs :
    Bind(ContextAt(s, i), LAMBDA context :
         [time     |-> TimeStr(mins, secs),
          seconds  |-> mins * 60 + secs,
          label    |-> LabelOf(context),
          category |-> categorizeTimestampContext(context)])))

\* the while loop over regex.exec(text), the next match being at offset i
RECURSIVE ScanTimestamps(_, _)
ScanTimestamps(s, i) ==
    IF i = 0 THEN <<>>
    ELSE <<TimestampAt(s, i, TimeLenAt(s, i + 1))>>
             \o ScanTimestamps(s, NextMarker(s, i + MarkerLenAt(s, i)))

extractTimestamps(s) == IF s = "" THEN <<>> ELSE ScanTimestamps(s, NextMarker(s, 1))

\* the text from offset from on with every match removed, the next match
\* being at offset i
RECURSIVE RemoveMarkers(_, _, _)
RemoveMarkers(s, from, i) ==
    IF i = 0 THEN Substring(s, from - 1, Len(s))
    ELSE Substring(s, from - 1, i - 1)
             \o RemoveMarkers(s, i + MarkerLenAt(s, i), NextMarker(s, i + MarkerLenAt(s, i)))

\* text.replace(<the marker expression>/g, '').trim()
stripTimestamps(s) == Trim(RemoveMarkers(s, 1, NextMarker(s, 1)))

----------------------------------------------------------------------------
\* Section parsing

SectionIdLen == 50

IsLowerAlnum(c) == IsDigit(c) \/ c \in {Ch(LowerChars, k) : k \in 1..26}

\* s.replace(/[^a-z0-9\s]/g, '')
KeepIdChars(s) ==
    ConcatMap(LAMBDA k : IF IsLowerAlnum(Ch(s, k)) \/ IsWs(Ch(s, k)) THEN Ch(s, k) ELSE "",
              1, Len(s))

\* s.replace(/\s+/g, '-'): each run of white space becomes one hyphen
HyphenateWs(s) ==
    ConcatMap(LAMBDA k :
                 IF ~IsWs(Ch(s, k)) THEN Ch(s, k)
                 ELSE IF IsWs(Ch(s, k - 1)) THEN ""
                 ELSE "-",
              1, Len(s))

generateSectionId(title) ==
    Substring(HyphenateWs(KeepIdChars(ToLower(title))), 0, SectionIdLen)

\* number of leading '#' characters
HashRun(s) == OrElse(FirstWhere(LAMBDA j : Ch(s, j) # "#", 1, Len(s)), Len(s) + 1) - 1

\* trimmedLine.match(/^(#{1,3})\s+(.+)/): <<group 2>> or <<>>.  The hashes
\* must be followed by white space, so group 1 is the whole run of h
\* hashes; \s+ takes the whole run of white space and .+ the rest from
\* offset r on, which is never empty because the line is trimmed.
HashMatch(trimmedLine) ==
    Bind(HashRun(trimmedLine), LAMBDA h :
    Bind(SkipWs(trimmedLine, h + 1), LAMBDA r :
         IF h >= 1 /\ h <= 3 /\ r > h + 1 /\ r <= Len(trimmedLine)
         THEN <<SubSeq(trimmedLine, r, Len(trimmedLine))>>
         ELSE <<>>))

IsBoldHeaderChar(c) ==
    \/ IsDigit(c)
    \/ c \in {Ch(UpperChars, k) : k \in 1..26}
    \/ IsWs(c)
    \/ c \in {"&", ":", ",", "-"}

\* trimmedLine.match(/^\*\*[A-Z0-9\s&:,-]+\*\*$/)
BoldHeaderMatch(trimmedLine) ==
    /\ Len(trimmedLine) >= 5
    /\ SubSeq(trimmedLine, 1, 2) = "**"
    /\ SubSeq(trimmedLine, Len(trimmedLine) - 1, Len(trimmedLine)) = "**"
    /\ \A i \in 3..(Len(trimmedLine) - 2) : IsBoldHeaderChar(Ch(trimmedLine, i))

\* <<title>> when the trimmed line is a section header, <<>> otherwise
HeaderTitle(trimmedLine) ==
    Bind(HashMatch(trimmedLine), LAMBDA hashMatch :
         IF hashMatch # <<>> THEN <<Trim(StripBold(hashMatch[1]))>>
         ELSE IF BoldHeaderMatch(trimmedLine) THEN <<Trim(StripBold(trimmedLine))>>
         ELSE <<>>)

\* faulty variant: the content is not trimmed
FinalizeUntrimmed(sec) == [sec EXCEPT !.timestamps = extractTimestamps(sec.content)]

\* faulty variant: the timestamps are also taken from the heading
FinalizeWithTitle(sec) ==
    Bind(Trim(sec.content), LAMBDA c :
         [sec EXCEPT !.content = c, !.timestamps = extractTimestamps(sec.title \o " " \o c)])

\* "Save previous section" / "Push last section"
FinalizeSection(sec) ==
    Bind(Trim(sec.content), LAMBDA c :
         [sec EXCEPT !.content = c, !.timestamps = extractTimestamps(c)])

\* "Start new section"
NewSection(title) ==
    [id |-> generateSectionId(title), title |-> title, content |-> "", timestamps |-> <<>>]

\* "Content before first header (preamble)"
IntroSection(line) ==
    [id |-> "intro", title |-> "Introduction", content |-> line \o "\n", timestamps |-> <<>>]

\* faulty variant: blank lines are not kept
AppendSkippingBlank(acc, more) ==
    IF more = "\n" THEN acc
    ELSE [acc EXCEPT !.cur = <<[acc.cur[1] EXCEPT !.content = @ \o more]>>]

\* currentSection.content += more
AppendContent(acc, more) == [acc EXCEPT !.cur = <<[acc.cur[1] EXCEPT !.content = @ \o more]>>]

\* faulty variant: the section that was open is not saved
OnHeaderDropsOpen(acc, title) == [sections |-> acc.sections, cur |-> <<NewSection(title)>>]

\* the branch of lines.forEach taken on a header line
OnHeader(acc, title) ==
    [sections |-> IF acc.cur # <<>>
                  THEN Append(acc.sections, FinalizeSection(acc.cur[1]))
                  ELSE acc.sections,
     cur      |-> <<NewSection(title)>>]

\* the body of lines.forEach; acc.cur is <<>> for currentSection = null
SectionStep(acc, line) ==
    Bind(Trim(line), LAMBDA trimmedLine :
         IF trimmedLine = "" THEN
             IF acc.cur # <<>> THEN AppendContent(acc, "\n") ELSE acc
         ELSE Bind(HeaderTitle(trimmedLine), LAMBDA header :
              IF header # <<>> THEN OnHeader(acc, header[1])
              ELSE IF acc.cur # <<>> THEN AppendContent(acc, line \o "\n")
              ELSE [acc EXCEPT !.cur = <<IntroSection(line)>>]))

RECURSIVE FoldLines(_, _, _)
FoldLines(acc, lines, i) ==
    IF i > Len(lines) THEN acc ELSE FoldLines(SectionStep(acc, lines[i]), lines, i + 1)

\* faulty variant: the last section is never pushed
PushLastMissing(acc) == acc.sections

\* "Push last section"
PushLast(acc) ==
    IF acc.cur # <<>> THEN Append(acc.sections, FinalizeSection(acc.cur[1])) ELSE acc.sections

parseReportSections(markdown) ==
    IF markdown = "" THEN <<>>
    ELSE PushLast(FoldLines([sections |-> <<>>, cur |-> <<>>], SplitNL(markdown), 1))

----------------------------------------------------------------------------
\* Finding extraction

TitleLen == 60
MinTitleLen == 3
DedupKeyLen == 30
MinLineLen == 15
MinTextLen == 10

IsBullet(c) == c \in {"-", "*"}

\* last offset of the run of digits that starts at offset i
DigitRunEnd(s, i) ==
    OrElse(FirstWhere(LAMBDA j : ~IsDigit(Ch(s, j)), i + 1, Len(s)), Len(s) + 1) - 1

\* leftmost offset >= i where \d+\. matches (followed by \s when needWs), else 0
NumDotAt(s, i, needWs) ==
    FirstWhere(LAMBDA k : /\ IsDigit(Ch(s, k))
                          /\ Bind(DigitRunEnd(s, k), LAMBDA e :
                                  /\ Ch(s, e + 1) = "."
                                  /\ (needWs => IsWs(Ch(s, e + 2)))),
               i, Len(s))

\* cleanLine.match(/^[-*<bullet>]|\d+\.\s/) of extractFindingsFromSection
IsFindingItem(cleanLine) == IsBullet(Ch(cleanLine, 1)) \/ NumDotAt(cleanLine, 1, TRUE) > 0

\* cleanLine.match(/^[-*<bullet>]|\d+\./) of extractStrengths
IsStrengthItem(cleanLine) == IsBullet(Ch(cleanLine, 1)) \/ NumDotAt(cleanLine, 1, FALSE) > 0

\* cleanLine.replace(/^[-*<bullet>]|\d+\.\s*/, '').trim(): the first match only
StripItemPrefix(cleanLine) ==
    IF IsBullet(Ch(cleanLine, 1)) THEN Trim(SubSeq(cleanLine, 2, Len(cleanLine)))
    ELSE Bind(NumDotAt(cleanLine, 1, FALSE), LAMBDA p :
         IF p = 0 THEN Trim(cleanLine)
         ELSE Trim(Substring(cleanLine, 0, p - 1)
                   \o Substring(cleanLine,
                                SkipWs(cleanLine, DigitRunEnd(cleanLine, p) + 2) - 1,
                                Len(cleanLine))))

\* last offset of the run of non-'*' characters that starts at offset i
NonStarRunEnd(s, i) ==
    OrElse(FirstWhere(LAMBDA j : Ch(s, j) = "*", i + 1, Len(s)), Len(s) + 1) - 1

\* whether /\*\*([^*]+)\*\*/ matches at offset i: [^*]+ takes the whole run
BoldAt(s, i) ==
    /\ i + 4 <= Len(s)
    /\ SubSeq(s, i, i + 1) = "**"
    /\ Ch(s, i + 2) # "*"
    /\ Bind(NonStarRunEnd(s, i + 2), LAMBDA e :
            e + 2 <= Len(s) /\ SubSeq(s, e + 1, e + 2) = "**")

\* text.match(/\*\*([^*]+)\*\*/): <<group 1>> of the leftmost match, or <<>>
BoldMatch(s) ==
    Bind(FirstWhere(LAMBDA k : BoldAt(s, k), 1, Len(s)), LAMBDA i :
         IF i = 0 THEN <<>> ELSE <<SubSeq(s, i + 2, NonStarRunEnd(s, i + 2))>>)

\* text.split(/[.!?]/)[0]
FirstSentence(s) ==
    SubSeq(s, 1, OrElse(FirstWhere(LAMBDA k : Ch(s, k) \in {".", "!", "?"}, 1, Len(s)),
                        Len(s) + 1) - 1)

\* cleanTitle.substring(0, 60) || 'Untitled Finding'
BoldTitle(cleanTitle) ==
    IF Substring(cleanTitle, 0, TitleLen) # "" THEN Substring(cleanTitle, 0, TitleLen)
    ELSE "Untitled Finding"

\* faulty variant: the first sentence is not cut
SentenceTitleUncut(cleanText) ==
    IF cleanText = "" \/ Len(cleanText) < MinTitleLen THEN "Untitled Finding" ELSE cleanText

\* the title made of the first sentence
SentenceTitle(cleanText) ==
    IF cleanText = "" \/ Len(cleanText) < MinTitleLen THEN "Untitled Finding"
    ELSE Substring(cleanText, 0, TitleLen) \o (IF Len(cleanText) > TitleLen THEN "..." ELSE "")

extractTitle(t) ==
    Bind(BoldMatch(t), LAMBDA boldMatch :
         IF boldMatch # <<>> THEN BoldTitle(stripTimestamps(boldMatch[1]))
         ELSE Bind(FirstSentence(t), LAMBDA firstSentence :
              SentenceTitle(stripTimestamps(IF firstSentence # "" THEN firstSentence ELSE t))))

HighIndex == 2
MediumIndex == 5

inferSeverity(sectionTitle, t, index) ==
    Bind(ToLower(sectionTitle \o " " \o t), LAMBDA lower :
         IF TestAny(lower, {"critical", "major hole", "biggest"}) THEN "critical"
         ELSE IF TestAny(lower, {"high", "significant", "dangerous"}) THEN "high"
         ELSE IF TestAny(lower, {"low", "minor", "small"}) THEN "low"
         ELSE IF index <= HighIndex THEN "high"
         ELSE IF index <= MediumIndex THEN "medium"
         ELSE "low")

StrikingKw == {"punch", "kick", "jab", "cross", "hook", "strike", "striking",
               "boxing", "overhand", "hands", "chin"}
GrapplingKw == {"takedown", "clinch", "submission", "guard", "mount", "grappl",
                "wrestling", "ground", "back", "rnc", "choke"}
MovementKw == {"stance", "footwork", "movement", "balance", "position", "lateral",
               "pivot", "circle"}
CardioKw == {"cardio", "tired", "fatigue", "gas", "pace", "breathing", "output"}
MentalKw == {"mental", "frustrat", "panic", "composure", "iq", "decision"}

inferCategory(t) ==
    Bind(ToLower(t), LAMBDA lower :
         IF TestAny(lower, StrikingKw) THEN "striking"
         ELSE IF TestAny(lower, GrapplingKw) THEN "grappling"
         ELSE IF TestAny(lower, MovementKw) THEN "movement"
         ELSE IF TestAny(lower, CardioKw) THEN "cardio"
         ELSE IF TestAny(lower, MentalKw) THEN "mental"
         ELSE "pattern")

HighEvidence == 3

\* faulty variant: the evidence count is looked at before the keywords
inferConfidenceByCount(t, timestampCount) ==
    Bind(ToLower(t), LAMBDA lower :
         IF timestampCount >= HighEvidence THEN "high"
         ELSE IF timestampCount >= 1 THEN "medium"
         ELSE IF TestAny(lower, {"inconclusive", "unclear", "cannot assess"}) THEN "inconclusive"
         ELSE "low")

inferConfidence(t, timestampCount) ==
    Bind(ToLower(t), LAMBDA lower :
         IF TestAny(lower, {"inconclusive", "unclear", "cannot assess"}) THEN "inconclusive"
         ELSE IF Includes(lower, "low confidence") THEN "low"
         ELSE IF timestampCount >= HighEvidence THEN "high"
         ELSE IF timestampCount >= 1 THEN "medium"
         ELSE "low")

\* offset after "counter[- ]?evidence" matched at offset i of the lowercased
\* text, 0 when it does not match there
CounterEvidenceEnd(lower, i) ==
    IF ~StartsAt(lower, i, "counter") THEN 0
    ELSE IF Ch(lower, i + 7) \in {"-", " "} /\ StartsAt(lower, i + 8, "evidence") THEN i + 16
    ELSE IF StartsAt(lower, i + 7, "evidence") THEN i + 15
    ELSE 0

\* first character of group 1 of counter[- ]?evidence:?\s*([^.]+) when the
\* keyword ends before offset e: ":?" and "\s*" are greedy and give back
\* characters until one character that is not '.' is left for the group;
\* 0 when the alternative fails
CounterGroupStart(s, e) ==
    IF e = 0 THEN 0
    ELSE Bind(IF Ch(s, e) = ":" THEN e + 1 ELSE e, LAMBDA a :
         Bind(SkipWs(s, a), LAMBDA b :
              IF b <= Len(s) /\ Ch(s, b) # "." THEN b
              ELSE IF b > a THEN b - 1
              ELSE IF a > e THEN e
              ELSE 0))

\* last offset of the run of non-'.' characters that starts at offset i
NonDotRunEnd(s, i) ==
    OrElse(FirstWhere(LAMBDA j : Ch(s, j) = ".", i + 1, Len(s)), Len(s) + 1) - 1

ContrastAt(lower, i) ==
    \E kw \in {"however", "but", "except", "although"} : StartsAt(lower, i, kw)

CounterAt(s, lower, i) == CounterGroupStart(s, CounterEvidenceEnd(lower, i)) > 0

\* text.match(/however|but|except|although|counter[- ]?evidence:?\s*([^.]+)/i)
\* then counterMatch[1]?.trim(): <<>> stands for undefined, which is also
\* what group 1 is when one of the first four alternatives matched
extractCounterEvidence(t) ==
    Bind(ToLower(t), LAMBDA lower :
    Bind(FirstWhere(LAMBDA k : ContrastAt(lower, k) \/ CounterAt(t, lower, k), 1, Len(t)),
         LAMBDA i :
         IF i = 0 \/ ContrastAt(lower, i) THEN <<>>
         ELSE Bind(CounterGroupStart(t, CounterEvidenceEnd(lower, i)), LAMBDA g :
                   <<Trim(SubSeq(t, g, NonDotRunEnd(t, g)))>>)))

\* faulty variant: no fallback to 1
InstanceCountNoFallback(n) == n

\* timestamps.length || 1
InstanceCount(n) == IF n = 0 THEN 1 ELSE n

\* the object pushed by extractFindingsFromSection, before its id is drawn
FindingOf(sectionTitle, t, index) ==
    Bind(extractTimestamps(t), LAMBDA ts :
         [title           |-> extractTitle(t),
          description     |-> t,
          severity        |-> inferSeverity(sectionTitle, t, index),
          category        |-> inferCategory(t),
          instanceCount   |-> InstanceCount(Len(ts)),
          confidence      |-> inferConfidence(t, Len(ts)),
          timestamps      |-> ts,
          counterEvidence |-> extractCounterEvidence(t)])

\* faulty variant: severity and confidence are inferred as for a finding
StrengthOfInferred(t) ==
    Bind(extractTimestamps(t), LAMBDA ts :
         [title           |-> extractTitle(t),
          description     |-> t,
          severity        |-> inferSeverity("", t, 0),
          category        |-> inferCategory(t),
          instanceCount   |-> InstanceCount(Len(ts)),
          confidence      |-> inferConfidence(t, Len(ts)),
          timestamps      |-> ts,
          counterEvidence |-> <<>>])

\* the object pushed by extractStrengths (no counterEvidence property)
StrengthOf(t) ==
    Bind(extractTimestamps(t), LAMBDA ts :
         [title           |-> extractTitle(t),
          description     |-> t,
          severity        |-> "low",
          category        |-> inferCategory(t),
          instanceCount   |-> InstanceCount(Len(ts)),
          confidence      |-> "high",
          timestamps      |-> ts,
          counterEvidence |-> <<>>])

\* the body of lines.forEach of extractFindingsFromSection; index is 0-based
FindingLine(sectionTitle, line, index) ==
    Bind(Trim(line), LAMBDA cleanLine :
         IF IsFindingItem(cleanLine) /\ Len(cleanLine) > MinLineLen
         THEN Bind(StripItemPrefix(cleanLine), LAMBDA t :
                   IF Len(t) > MinTextLen THEN <<FindingOf(sectionTitle, t, index)>> ELSE <<>>)
         ELSE <<>>)

RECURSIVE FindingLines(_, _, _)
FindingLines(section, lines, i) ==
    IF i > Len(lines) THEN <<>>
    ELSE FindingLine(section.title, lines[i], i - 1) \o FindingLines(section, lines, i + 1)

extractFindingsFromSection(section) == FindingLines(section, SplitNL(section.content), 1)

\* the body of lines.forEach of extractStrengths
StrengthLine(line) ==
    Bind(Trim(line), LAMBDA cleanLine :
         IF IsStrengthItem(cleanLine) /\ Len(cleanLine) > MinLineLen
         THEN Bind(StripItemPrefix(cleanLine), LAMBDA t :
                   IF Len(t) > MinTextLen THEN <<StrengthOf(t)>> ELSE <<>>)
         ELSE <<>>)

RECURSIVE StrengthLines(_, _)
StrengthLines(lines, i) ==
    IF i > Len(lines) THEN <<>>
    ELSE StrengthLine(lines[i]) \o StrengthLines(lines, i + 1)

FindingSectionKeywords == {"weaknesses", "exploitable patterns", "habits", "bad habits",
                           "major holes"}
StrengthKeywords == {"strengths", "good things", "offensive threats"}

IsFindingSection(s) == TestAny(ToLower(s.title), FindingSectionKeywords)
IsStrengthSection(s) == TestAny(ToLower(s.title), StrengthKeywords)

\* findingSections.forEach(section => findings.push(...sectionFindings))
RECURSIVE CollectFindings(_, _)
CollectFindings(secs, i) ==
    IF i > Len(secs) THEN <<>>
    ELSE (IF IsFindingSection(secs[i]) THEN extractFindingsFromSection(secs[i]) ELSE <<>>)
             \o CollectFindings(secs, i + 1)

\* strengthSections.forEach(section => ...)
RECURSIVE CollectStrengths(_, _)
CollectStrengths(secs, i) ==
    IF i > Len(secs) THEN <<>>
    ELSE (IF IsStrengthSection(secs[i])
          THEN StrengthLines(SplitNL(secs[i].content), 1)
          ELSE <<>>)
             \o CollectStrengths(secs, i + 1)

\* crypto.randomUUID(): the k-th object created gets the k-th fresh identifier
WithIds(fs, base) ==
    [k \in 1..Len(fs) |->
        [id              |-> base + k,
         title           |-> fs[k].title,
         description     |-> fs[k].description,
         severity        |-> fs[k].severity,
         category        |-> fs[k].category,
         instanceCount   |-> fs[k].instanceCount,
         confidence      |-> fs[k].confidence,
         timestamps      |-> fs[k].timestamps,
         counterEvidence |-> fs[k].counterEvidence]]

\* f.title.toLowerCase().substring(0, 30)
DedupKey(f) == Substring(ToLower(f.title), 0, DedupKeyLen)

\* faulty variant: the last element of each key is kept
KeepsLast(fs, i) == \A j \in (i + 1)..Len(fs) : DedupKey(fs[j]) # DedupKey(fs[i])

\* whether the filter callback of deduplicateFindings keeps fs[i]: its key
\* was not seen on an earlier element
KeepsItem(fs, i) == \A j \in 1..(i - 1) : DedupKey(fs[j]) # DedupKey(fs[i])

RECURSIVE DedupFrom(_, _)
DedupFrom(fs, i) ==
    IF i > Len(fs) THEN <<>>
    ELSE (IF KeepsItem(fs, i) THEN <<fs[i]>> ELSE <<>>) \o DedupFrom(fs, i + 1)

deduplicateFindings(fs) == DedupFrom(fs, 1)

\* Math.min(...timestamps.map(t => t.seconds)) of a non-empty list
MinSeconds(ts) ==
    CHOOSE m \in {ts[k].seconds : k \in 1..Len(ts)} :
        \A n \in {ts[k].seconds : k \in 1..Len(ts)} : m <= n

\* aEarliest / bEarliest: <<>> stands for Infinity
Earliest(f) == IF Len(f.timestamps) > 0 THEN <<MinSeconds(f.timestamps)>> ELSE <<>>

\* the sign of aEarliest - bEarliest as Array.prototype.sort reads it:
\* Infinity - Infinity is NaN, which sort treats as +0
CompareKeys(ae, be) ==
    IF ae = <<>> /\ be = <<>> THEN 0
    ELSE IF ae = <<>> THEN 1
    ELSE IF be = <<>> THEN -1
    ELSE ae[1] - be[1]

CompareEarliest(a, b) == CompareKeys(Earliest(a), Earliest(b))

\* Array.prototype.sort is stable: x goes behind every element not greater
RECURSIVE InsertByEarliest(_, _)
InsertByEarliest(sorted, x) ==
    IF sorted = <<>> THEN <<x>>
    ELSE IF CompareEarliest(sorted[Len(sorted)], x) > 0
         THEN Append(InsertByEarliest(SubSeq(sorted, 1, Len(sorted) - 1), x),
                     sorted[Len(sorted)])
    ELSE Append(sorted, x)

RECURSIVE SortFrom(_, _, _)
SortFrom(sorted, fs, i) ==
    IF i > Len(fs) THEN sorted ELSE SortFrom(InsertByEarliest(sorted, fs[i]), fs, i + 1)

\* faulty variant: the list is left as it is
SortMissing(fs) == fs

\* uniqueFindings.sort((a, b) => aEarliest - bEarliest)
SortByEarliest(fs) == SortFrom(<<>>, fs, 1)

\* faulty variant: a scan position kept between calls, so that only the
\* first call finds anything
extractFindingsOnce(secs, base) ==
    IF base > 0 THEN <<>>
    ELSE SortByEarliest(deduplicateFindings(WithIds(CollectFindings(secs, 1), base)))

\* base: the number of identifiers drawn before the call
extractFindings(secs, base) ==
    SortByEarliest(deduplicateFindings(WithIds(CollectFindings(secs, 1), base)))

\* faulty variant: the strengths are sorted like the findings
extractStrengthsSorted(secs, base) ==
    SortByEarliest(deduplicateFindings(WithIds(CollectStrengths(secs, 1), base)))

extractStrengths(secs, base) ==
    deduplicateFindings(WithIds(CollectStrengths(secs, 1), base))

----------------------------------------------------------------------------
\* Overall assessment

FieldLen == 100
SummaryMax == 1500
GoodBoundary == 500

\* faulty variant: the placeholder values are left empty
EmptyAssessment == [level |-> "", archetype |-> "", summary |-> ""]

DefaultAssessment ==
    [level |-> "Unknown", archetype |-> "Unknown", summary |-> "No assessment available."]

\* sections.find(s => title includes 'overall' || 'assessment'): its index, 0
\* when find returns undefined
FindAssessmentSection(secs) ==
    FirstWhere(LAMBDA i : TestAny(ToLower(secs[i].title), {"overall", "assessment"}),
               1, Len(secs))

\* what \*?\*? takes of a run of n '*'
Min2(n) == IF n > 2 THEN 2 ELSE n

\* length of the run of '*' that starts at offset p
StarsAt(s, p) == IF Ch(s, p) = "*" THEN StarRunEnd(s, p) - p + 1 ELSE 0

\* length of the run of '*' that ends just before offset k
StarsBefore(s, k) == IF Ch(s, k - 1) = "*" THEN k - StarRunStart(s, k - 1) ELSE 0

\* first offset at or after p that [:\s]* does not take
LabelGapEnd(s, p) ==
    IF p > Len(s) THEN p
    ELSE OrElse(FirstWhere(LAMBDA j : ~(IsWs(Ch(s, j)) \/ Ch(s, j) = ":"), p, Len(s)),
                Len(s) + 1)

\* a character of [^*\n]
IsValueCh(c) == c # "" /\ c # "*" /\ c # "\n"

\* \*?\*?[:\s]*\*?\*?([^*\n]+) applied at offset p, just after the keyword:
\* the offset where the group starts, 0 when there is no match.  Each
\* quantifier takes all it can; when the group cannot start there, [:\s]*
\* gives characters back until the group can start on one of them.
ValueStart(s, p) ==
    Bind(p + Min2(StarsAt(s, p)), LAMBDA p1 :
    Bind(LabelGapEnd(s, p1), LAMBDA g :
    Bind(g + Min2(StarsAt(s, g)), LAMBDA q :
         IF IsValueCh(Ch(s, q)) THEN q
         ELSE LastWhere(LAMBDA j : Ch(s, j) # "\n", p1, g - 1))))

\* last offset of the group that starts at q
ValueEnd(s, q) ==
    OrElse(FirstWhere(LAMBDA j : Ch(s, j) \in {"*", "\n"}, q, Len(s)), Len(s) + 1) - 1

\* offset of the keyword of the leftmost match of
\* /\*?\*?<keyword>\*?\*?[:\s]*\*?\*?([^*\n]+)/i in s, 0 when there is none
LabelMatch(s, lower, kw) ==
    FirstWhere(LAMBDA k : StartsAt(lower, k, kw) /\ ValueStart(s, k + Len(kw)) > 0,
               1, Len(s))

\* match[1] of s.match(/\*?\*?<keyword>...([^*\n]+)/i), "" when match is null
LabelValue(s, kw) ==
    Bind(LabelMatch(s, ToLower(s), kw), LAMBDA k :
         IF k = 0 THEN ""
         ELSE Bind(ValueStart(s, k + Len(kw)), LAMBDA q : SubSeq(s, q, ValueEnd(s, q))))

\* match[1].replace(/\*\*/g, '').trim().substring(0, 100), or the default
FieldOf(s, kw, default) ==
    Bind(LabelValue(s, kw), LAMBDA v :
         IF v = "" THEN default ELSE Substring(Trim(StripBold(v)), 0, FieldLen))

\* offset of "Current" when (?:Current\s+) stands just before offset k, else k
CurrentStart(s, lower, k) ==
    IF ~IsWs(Ch(s, k - 1)) THEN k
    ELSE Bind(LastWhere(LAMBDA j : ~IsWs(Ch(s, j)), 1, k - 1), LAMBDA e :
              IF e >= 7 /\ StartsAt(lower, e - 6, "current") THEN e - 6 ELSE k)

\* offset where the match whose keyword stands at k starts
MatchStart(s, lower, k, prefixed) ==
    Bind(IF prefixed THEN CurrentStart(s, lower, k) ELSE k, LAMBDA c :
         c - Min2(StarsBefore(s, c)))

\* s.replace(/\*?\*?<keyword>\*?\*?[:\s]*\*?\*?[^*\n]+\*?\*?/gi, ''), with
\* (?:Current\s+)? before the keyword when prefixed
RECURSIVE RemoveLabels(_, _, _)
RemoveLabels(s, kw, prefixed) ==
    Bind(ToLower(s), LAMBDA lower :
    Bind(LabelMatch(s, lower, kw), LAMBDA k :
         IF k = 0 THEN s
         ELSE Bind(ValueEnd(s, ValueStart(s, k + Len(kw))), LAMBDA e :
              Substring(s, 0, MatchStart(s, lower, k, prefixed) - 1)
                 \o RemoveLabels(Substring(s, e + Min2(StarsAt(s, e + 1)), Len(s)),
                                 kw, prefixed))))

\* the section's content without its Archetype and Level lines and without
\* bold markers, trimmed
StrippedSummary(content) ==
    Trim(StripBold(RemoveLabels(RemoveLabels(content, "archetype", FALSE), "level", TRUE)))

\* s.lastIndexOf(c, from): a 0-based offset, -1 when there is none
LastIndexOf(s, c, from) == LastWhere(LAMBDA j : Ch(s, j) = c, 1, from + 1) - 1

\* Math.max(a, b, c)
Max3(a, b, c) == IF a >= b /\ a >= c THEN a ELSE IF b >= c THEN b ELSE c

\* the cut of a summary longer than 1500 characters
CutSummary(summaryText) ==
    IF Len(summaryText) <= SummaryMax THEN summaryText
    ELSE Bind(Max3(LastIndexOf(summaryText, ".", SummaryMax),
                   LastIndexOf(summaryText, "?", SummaryMax),
                   LastIndexOf(summaryText, "!", SummaryMax)), LAMBDA bestCutoff :
              IF bestCutoff > GoodBoundary THEN Substring(summaryText, 0, bestCutoff + 1)
              ELSE Substring(summaryText, 0, SummaryMax))

\* summaryText || defaultAssessment.summary
SummaryOf(content) ==
    Bind(CutSummary(StrippedSummary(content)), LAMBDA summaryText :
         IF summaryText = "" THEN DefaultAssessment.summary ELSE summaryText)

\* assessmentSection?.content, "" when there is no such section
AssessmentContent(secs) ==
    Bind(FindAssessmentSection(secs), LAMBDA a : IF a = 0 THEN "" ELSE secs[a].content)

extractOverallAssessment(secs, rawContent) ==
    IF FindAssessmentSection(secs) = 0 /\ rawContent = "" THEN DefaultAssessment
    ELSE Bind(AssessmentContent(secs), LAMBDA own :
         Bind(IF own = "" THEN rawContent ELSE own, LAMBDA content :
              [level     |-> FieldOf(content, "level", DefaultAssessment.level),
               archetype |-> FieldOf(content, "archetype", DefaultAssessment.archetype),
               summary   |-> IF own = "" THEN DefaultAssessment.summary
                             ELSE SummaryOf(own)]))

----------------------------------------------------------------------------
\* Decision tree.  The expression applied to every line is
\* /(?:[-*<bullet>]|\d+\.)?\s*IF\s+(.+?)\s+THEN\s+(.+)/i; its optional list
\* prefix takes no part in the two groups.

\* a character of `.`
IsLineCh(c) == c # "" /\ c # "\n" /\ c # "\r"

\* last offset of the run of `.` characters that starts at a
LineEnd(s, a) == OrElse(FirstWhere(LAMBDA j : ~IsLineCh(Ch(s, j)), a, Len(s)), Len(s) + 1) - 1

\* \s+(.+) applied at offset v0, just after THEN: the offset where the
\* group starts, 0 when there is no match (\s+ gives back white space when
\* nothing follows it)
ResponseStart(s, v0) ==
    IF ~IsWs(Ch(s, v0)) THEN 0
    ELSE Bind(SkipWs(s, v0), LAMBDA v :
              IF v <= Len(s) THEN v
              ELSE LastWhere(LAMBDA j : IsLineCh(Ch(s, j)), v0 + 1, Len(s)))

\* offset of THEN when \s+THEN\s+(.+) matches at offset t, else 0
ThenAt(s, lower, t) ==
    IF ~IsWs(Ch(s, t)) THEN 0
    ELSE Bind(SkipWs(s, t), LAMBDA u :
              IF StartsAt(lower, u, "then") /\ ResponseStart(s, u + 4) > 0 THEN u ELSE 0)

\* (.+?) started at offset a: the offset just after the shortest group that
\* the rest of the expression can follow, 0 when there is none
TriggerStop(s, lower, a) ==
    IF ~IsLineCh(Ch(s, a)) THEN 0
    ELSE FirstWhere(LAMBDA t : ThenAt(s, lower, t) > 0, a + 1, LineEnd(s, a) + 1)

\* IF\s+ applied at offset k: the offset where group 1 starts, 0 when there
\* is no match (\s+ takes all the white space it can, and gives it back one
\* character at a time while the rest does not match)
TriggerStart(s, lower, k) ==
    IF ~(StartsAt(lower, k, "if") /\ IsWs(Ch(s, k + 2))) THEN 0
    ELSE LastWhere(LAMBDA a : TriggerStop(s, lower, a) > 0, k + 3, SkipWs(s, k + 2))

\* offset of IF in the leftmost match, 0 when line.match(regex) is null
DecisionMatch(s, lower) ==
    FirstWhere(LAMBDA k : TriggerStart(s, lower, k) > 0, 1, Len(s))

\* match[1].replace(/\*\*/g, '').trim()
TriggerOf(s, a, t) == Trim(StripBold(SubSeq(s, a, t - 1)))

\* faulty variant: bold markers and time markers are taken out of the response
ResponseBare(s, v) == stripTimestamps(StripBold(SubSeq(s, v, LineEnd(s, v))))

\* match[2].trim()
ResponseOf(s, v) == Trim(SubSeq(s, v, LineEnd(s, v)))

\* timestamps[0]: <<>> stands for undefined
FirstTimestamp(ts) == IF Len(ts) = 0 THEN <<>> ELSE <<ts[1]>>

\* the node pushed for a line whose match has IF at offset k
DecisionNode(line, lower, k) ==
    Bind(TriggerStart(line, lower, k), LAMBDA a :
    Bind(TriggerStop(line, lower, a), LAMBDA t :
         [trigger   |-> TriggerOf(line, a, t),
          response  |-> ResponseOf(line, ResponseStart(line, ThenAt(line, lower, t) + 4)),
          timestamp |-> FirstTimestamp(extractTimestamps(line))]))

\* the body of lines.forEach: the nodes pushed for one line
LineNodes(line) ==
    Bind(ToLower(line), LAMBDA lower :
    Bind(DecisionMatch(line, lower), LAMBDA k :
         IF k = 0 THEN <<>> ELSE <<DecisionNode(line, lower, k)>>))

\* lines.forEach(line => ...) from line i on
RECURSIVE SectionNodes(_, _)
SectionNodes(lines, i) ==
    IF i > Len(lines) THEN <<>> ELSE LineNodes(lines[i]) \o SectionNodes(lines, i + 1)

IsTreeSection(s) == TestAny(ToLower(s.title), {"decision", "counter logic", "tree"})

\* treeSections.forEach(section => ...) from section i on
RECURSIVE TreeNodes(_, _)
TreeNodes(secs, i) ==
    IF i > Len(secs) THEN <<>>
    ELSE (IF IsTreeSection(secs[i]) THEN SectionNodes(SplitNL(secs[i].content), 1) ELSE <<>>)
             \o TreeNodes(secs, i + 1)

extractDecisionTree(secs) == TreeNodes(secs, 1)

----------------------------------------------------------------------------
\* Priority improvements

MaxImprovements == 10

FixKeywords == {"fix", "improve", "work on", "focus on", "practice", "develop"}
DrillKeywords == {"drill", "exercise", "practice"}

\* [:\s]+([^.]+) applied at offset p, just after the keyword: the offset
\* where the group starts, 0 when there is no match ([:\s]+ gives its last
\* character back when a '.' or the end of the text follows it)
AdviceStart(s, p) ==
    IF ~(IsWs(Ch(s, p)) \/ Ch(s, p) = ":") THEN 0
    ELSE Bind(LabelGapEnd(s, p), LAMBDA g :
              IF g <= Len(s) /\ Ch(s, g) # "." THEN g
              ELSE IF g - 1 > p THEN g - 1
              ELSE 0)

\* offset just after the keyword of the leftmost match of
\* /(?:kw1|kw2|...)[:\s]+([^.]+)/i, 0 when match is null
AdviceMatch(s, lower, kws) ==
    Bind(FirstWhere(LAMBDA k : \E kw \in kws :
                        StartsAt(lower, k, kw) /\ AdviceStart(s, k + Len(kw)) > 0,
                    1, Len(s)), LAMBDA k :
         IF k = 0 THEN 0
         ELSE k + Len(CHOOSE kw \in kws :
                          StartsAt(lower, k, kw) /\ AdviceStart(s, k + Len(kw)) > 0))

\* match[1].trim() for the match whose keyword ends just before offset p
AdviceOf(s, p) ==
    Bind(AdviceStart(s, p), LAMBDA q :
         Trim(SubSeq(s, q, OrElse(FirstWhere(LAMBDA j : Ch(s, j) = ".", q, Len(s)),
                                  Len(s) + 1) - 1)))

extractFix(t) ==
    Bind(AdviceMatch(t, ToLower(t), FixKeywords), LAMBDA p :
         IF p = 0 THEN "Address this issue through focused training and drilling."
         ELSE AdviceOf(t, p))

\* <<>> stands for undefined
extractDrill(t) ==
    Bind(AdviceMatch(t, ToLower(t), DrillKeywords), LAMBDA p :
         IF p = 0 THEN <<>> ELSE <<AdviceOf(t, p)>>)

\* faulty variant: the sections are not filtered by title
AnySection(s) == TRUE

IsImprovementSection(s) == TestAny(ToLower(s.title), {"priority", "improvement", "fix"})

\* the object pushed for an item
ImprovementOf(t, priority) ==
    [area                |-> inferCategory(t),
     issue               |-> t,
     fix                 |-> extractFix(t),
     drillRecommendation |-> extractDrill(t),
     priority            |-> priority]

\* lines.forEach(line => ...) from line i on, priority being the running counter
RECURSIVE ImprovementLines(_, _, _)
ImprovementLines(lines, i, priority) ==
    IF i > Len(lines) THEN <<>>
    ELSE Bind(Trim(lines[i]), LAMBDA cleanLine :
         IF IsStrengthItem(cleanLine) /\ Len(cleanLine) > MinLineLen
         THEN <<ImprovementOf(StripItemPrefix(cleanLine), priority)>>
                  \o ImprovementLines(lines, i + 1, priority + 1)
         ELSE ImprovementLines(lines, i + 1, priority))

\* improvementSections.forEach(section => ...) from section i on,
\* improvements being what has been pushed so far
RECURSIVE CollectImprovements(_, _, _)
CollectImprovements(secs, i, improvements) ==
    IF i > Len(secs) THEN improvements
    ELSE CollectImprovements(secs, i + 1,
             IF IsImprovementSection(secs[i])
             THEN improvements
                      \o ImprovementLines(SplitNL(secs[i].content), 1, Len(improvements) + 1)
             ELSE improvements)

extractImprovements(secs) ==
    Bind(CollectImprovements(secs, 1, <<>>), LAMBDA improvements :
         SubSeq(improvements, 1,
                IF Len(improvements) > MaxImprovements THEN MaxImprovements
                ELSE Len(improvements)))

----------------------------------------------------------------------------
\* Opponent game plan.  The expression is
\* /(?:#+|(?:\*\*)?)["']?IF I WERE YOUR OPPONENT["']?(?:\*\*)?[:\s]*\n?
\*  ([\s\S]*?)(?=(?:\*\*)?Corner AI|#|---|\n\n\n|$)/i

GamePlanLen == 1500

GamePlanHeading == "if i were your opponent"

IsQuote(c) == c \in {"\"", "'"}

\* offset where the group starts when the heading's words end just before p
GamePlanStart(s, p) ==
    Bind(IF IsQuote(Ch(s, p)) THEN p + 1 ELSE p, LAMBDA a :
    Bind(IF StartsAt(s, a, "**") THEN a + 2 ELSE a, LAMBDA b :
         LabelGapEnd(s, b)))

\* whether the lookahead holds at offset e
GamePlanStop(s, lower, e) ==
    \/ e > Len(s)
    \/ StartsAt(lower, e, "corner ai")
    \/ StartsAt(lower, e, "**corner ai")
    \/ Ch(s, e) = "#"
    \/ StartsAt(s, e, "---")
    \/ StartsAt(s, e, "\n\n\n")

\* match[1]: the shortest text from the start of the group to a stop
GamePlanGroup(s, lower, q) ==
    Substring(s, q - 1,
              OrElse(FirstWhere(LAMBDA e : GamePlanStop(s, lower, e), q, Len(s)),
                     Len(s) + 1) - 1)

\* s.replace(/^["']|["']$/g, '')
StripQuotes(s) ==
    Substring(s, IF IsQuote(Ch(s, 1)) THEN 1 ELSE 0,
              IF Len(s) > 1 /\ IsQuote(Ch(s, Len(s))) THEN Len(s) - 1 ELSE Len(s))

\* s.replace(/\*\*Corner AI.*$/is, '')
StripVerdict(s) ==
    Bind(ToLower(s), LAMBDA lower :
    Bind(FirstWhere(LAMBDA k : StartsAt(lower, k, "**corner ai"), 1, Len(s)), LAMBDA k :
         IF k = 0 THEN s ELSE Substring(s, 0, k - 1)))

\* <<>> stands for undefined
extractOpponentGamePlan(rawContent) ==
    Bind(ToLower(rawContent), LAMBDA lower :
    Bind(FirstWhere(LAMBDA k : StartsAt(lower, k, GamePlanHeading), 1, Len(rawContent)),
         LAMBDA k :
         IF k = 0 THEN <<>>
         ELSE <<Substring(
                    Trim(StripVerdict(StripQuotes(Trim(
                        GamePlanGroup(rawContent, lower,
                                      GamePlanStart(rawContent, k + Len(GamePlanHeading))))))),
                    0, GamePlanLen)>>))

----------------------------------------------------------------------------
\* Report assembly

MinEvidence == 2
MaxCritical == 5

\* faulty variant: the last finding is not counted
SeverityCountSkipsLast(fs, sev) ==
    Cardinality({k \in 1..(Len(fs) - 1) : fs[k].severity = sev})

\* findings.filter(f => f.severity === sev).length
SeverityCount(fs, sev) == Cardinality({k \in 1..Len(fs) : fs[k].severity = sev})

\* faulty variant: findings of inconclusive confidence count as well
LowEvidenceAny(fs) == Cardinality({k \in 1..Len(fs) : fs[k].instanceCount < MinEvidence})

\* lowEvidenceFindings.length
LowEvidenceCount(fs) ==
    Cardinality({k \in 1..Len(fs) :
                    fs[k].instanceCount < MinEvidence /\ fs[k].confidence # "inconclusive"})

LimitedEvidenceWarning(n) == NatToStr(n) \o " finding(s) have limited timestamp evidence."
NoStrengthsWarning == "No strengths were identified in this analysis."
OverSensitiveWarning == "High number of critical findings - review may be over-sensitive."

validateReport(fs, ss) ==
    (IF LowEvidenceCount(fs) > 0 THEN <<LimitedEvidenceWarning(LowEvidenceCount(fs))>>
     ELSE <<>>)
        \o (IF Len(ss) = 0 THEN <<NoStrengthsWarning>> ELSE <<>>)
        \o (IF SeverityCount(fs, "critical") > MaxCritical THEN <<OverSensitiveWarning>>
            ELSE <<>>)

\* faulty variant: x goes before the elements equal to it
RECURSIVE InsertBeforeEqual(_, _)
InsertBeforeEqual(sorted, x) ==
    IF sorted = <<>> THEN <<x>>
    ELSE IF sorted[Len(sorted)].seconds - x.seconds >= 0
         THEN Append(InsertBeforeEqual(SubSeq(sorted, 1, Len(sorted) - 1), x),
                     sorted[Len(sorted)])
    ELSE Append(sorted, x)

\* x put into a list sorted by seconds: behind every element not greater
RECURSIVE InsertBySeconds(_, _)
InsertBySeconds(sorted, x) ==
    IF sorted = <<>> THEN <<x>>
    ELSE IF sorted[Len(sorted)].seconds - x.seconds > 0
         THEN Append(InsertBySeconds(SubSeq(sorted, 1, Len(sorted) - 1), x),
                     sorted[Len(sorted)])
    ELSE Append(sorted, x)

RECURSIVE SortSecondsFrom(_, _, _)
SortSecondsFrom(sorted, ts, i) ==
    IF i > Len(ts) THEN sorted ELSE SortSecondsFrom(InsertBySeconds(sorted, ts[i]), ts, i + 1)

\* allTimestamps.sort((a, b) => a.seconds - b.seconds): Array.prototype.sort
\* is stable
SortBySeconds(ts) == SortSecondsFrom(<<>>, ts, 1)

ReportMetadata(fs, ss) ==
    [totalFindings      |-> Len(fs),
     criticalCount      |-> SeverityCount(fs, "critical"),
     highCount          |-> SeverityCount(fs, "high"),
     mediumCount        |-> SeverityCount(fs, "medium"),
     lowCount           |-> SeverityCount(fs, "low"),
     validationWarnings |-> validateReport(fs, ss)]

\* the number of identifiers parseSelfScoutReport draws: one for every
\* finding and strength object created, and one for the report
ReportIds(secs) == Len(CollectFindings(secs, 1)) + Len(CollectStrengths(secs, 1)) + 1

\* faulty variant: the sort also reaches the timestamps of the sections
TimestampSortShared(store) ==
    [sections      |-> [k \in 1..Len(store.sections) |->
                           [store.sections[k] EXCEPT !.timestamps = SortBySeconds(@)]],
     allTimestamps |-> SortBySeconds(store.allTimestamps)]

\* allTimestamps.sort((a, b) => a.seconds - b.seconds), in place: of the
\* arrays the function holds, store, only allTimestamps is written
TimestampSort(store) == [store EXCEPT !.allTimestamps = SortBySeconds(@)]

\* faulty variant: the top-level timestamps are gathered from the sections
ReportStoreFromSections(rawContent) ==
    Bind(parseReportSections(rawContent), LAMBDA secs :
         [sections      |-> secs,
          allTimestamps |-> SortBySeconds(ConcatMap(LAMBDA k : secs[k].timestamps,
                                                    1, Len(secs)))])

\* the arrays parseSelfScoutReport holds once the timestamps are sorted;
\* the functions called after that read the sections and write to none
ReportStore(rawContent) ==
    TimestampSort([sections      |-> parseReportSections(rawContent),
                   allTimestamps |-> extractTimestamps(rawContent)])

\* base: the number of identifiers drawn before the call; now: what new
\* Date() reads
parseSelfScoutReport(rawContent, analysisType, base, now) ==
    Bind(ReportStore(rawContent), LAMBDA store :
    Bind(store.sections, LAMBDA secs :
    Bind(extractFindings(secs, base), LAMBDA fs :
    Bind(extractStrengths(secs, base + Len(CollectFindings(secs, 1))), LAMBDA ss :
         [id                   |-> base + ReportIds(secs),
          generatedAt          |-> now,
          analysisType         |-> analysisType,
          overallAssessment    |-> extractOverallAssessment(secs, rawContent),
          findings             |-> fs,
          strengths            |-> ss,
          priorityImprovements |-> extractImprovements(secs),
          opponentGamePlan     |-> extractOpponentGamePlan(rawContent),
          sections             |-> secs,
          timestamps           |-> store.allTimestamps,
          metadata             |-> ReportMetadata(fs, ss),
          rawContent           |-> rawContent]))))

----------------------------------------------------------------------------
\* Report generation: generateReportFromTemplate and the prompt templates

\* the templates of PROMPTS, with the one property validation reads
PROMPTS == <<
    [id |-> "FIGHT_SCORING",            requiredInputs |-> <<"opponentVideo">>],
    [id |-> "OPPONENT_BREAKDOWN_FULL",  requiredInputs |-> <<"opponentVideo">>],
    [id |-> "OPPONENT_BREAKDOWN_QUICK", requiredInputs |-> <<"opponentVideo">>],
    [id |-> "GAME_PLAN_FULL",           requiredInputs |-> <<"opponentVideo", "userVideo">>],
    [id |-> "GAME_PLAN_QUICK",          requiredInputs |-> <<"opponentVideo", "userVideo">>],
    [id |-> "SELF_SCOUT_FULL",          requiredInputs |-> <<"userVideo">>],
    [id |-> "SELF_SCOUT_QUICK",         requiredInputs |-> <<"userVideo">>],
    [id |-> "SELF_SCOUT_PROGRESS",      requiredInputs |-> <<"userVideo">>],
    [id |-> "EVIDENCE_EXTRACTION",      requiredInputs |-> <<"opponentVideo">>] >>

\* PROMPTS is an object literal: the keys it inherits from Object.prototype,
\* these among them, are defined on it as well
ObjectPrototypeKeys == {"constructor", "toString", "valueOf", "hasOwnProperty", "__proto__"}

\* PROMPTS[id]: <<the template>>, <<>> for undefined, and for an inherited
\* key <<the inherited value>>, an object or function without requiredInputs
getPrompt(id) ==
    IF \E k \in 1..Len(PROMPTS) : PROMPTS[k].id = id
    THEN <<[own |-> TRUE, requiredInputs |-> PROMPTS[CHOOSE k \in 1..Len(PROMPTS) :
                                                        PROMPTS[k].id = id].requiredInputs]>>
    ELSE IF id \in ObjectPrototypeKeys THEN <<[own |-> FALSE, requiredInputs |-> <<>>]>>
    ELSE <<>>

\* faulty variant: an input is missing only when it is absent
MissingWhenAbsent(inputs, req) == req \notin DOMAIN inputs

\* !inputs[req] || (Array.isArray(inputs[req]) && inputs[req].length === 0),
\* for inputs that are arrays given by their length
MissingInput(inputs, req) == req \notin DOMAIN inputs \/ inputs[req] = 0

\* validateInputs(template, inputs) for a template of PROMPTS
validateInputs(template, inputs) ==
    Bind(SelectSeq(template.requiredInputs, LAMBDA req : MissingInput(inputs, req)),
         LAMBDA missing : [valid |-> missing = <<>>, missing |-> missing])

\* seq.join(', ')
RECURSIVE JoinComma(_)
JoinComma(seq) ==
    IF seq = <<>> THEN ""
    ELSE IF Len(seq) = 1 THEN seq[1]
    ELSE seq[1] \o ", " \o JoinComma(Tail(seq))

\* the values thrown: an Error with a message, the TypeError of a for-of
\* over undefined, the ProgressEvent a failed FileReader rejects with
ErrorOf(message) == [name |-> "Error", message |-> message]
NotIterable == [name |-> "TypeError", message |-> "template.requiredInputs is not iterable"]
ReadFailed == [name |-> "ProgressEvent", message |-> ""]

\* the length of an array option, [] when the option is absent
LengthOr0(opt) == IF opt = <<>> THEN 0 ELSE opt[1]

\* the files generateReportFromTemplate reads, one after the other
FilesOf(opts) ==
    LengthOr0(opts.userVideos) + LengthOr0(opts.opponentVideos) + LengthOr0(opts.imageFiles)

----------------------------------------------------------------------------
\* Inputs.  An input is composed from a table of pieces; each piece carries
\* what a reader of the text sees in it, so that what the parser finds can
\* be compared with what was written.

MaxPieces == 3
MaxLines == 3
MaxItems == 3

\* all sequences of length 0..n over S
SeqsUpTo(S, n) == UNION {[1..k -> S] : k \in 0..n}

\* tokens of a text with time markers.  paired: the token is one of the
\* forms [M:SS], (M:SS), [M:SS-M:SS], (M:SS-M:SS); mixed: a well-formed
\* time between brackets that do not pair; m, ss: the start time as written.
TsPieces == <<
    [str |-> "[0:45]",        paired |-> TRUE,  mixed |-> FALSE, m |-> 0,  ss |-> 45, time |-> "0:45"],
    [str |-> "(0:45)",        paired |-> TRUE,  mixed |-> FALSE, m |-> 0,  ss |-> 45, time |-> "0:45"],
    [str |-> "[1:05-1:20]",   paired |-> TRUE,  mixed |-> FALSE, m |-> 1,  ss |-> 5,  time |-> "1:05"],
    [str |-> "(12:07-13:30)", paired |-> TRUE,  mixed |-> FALSE, m |-> 12, ss |-> 7,  time |-> "12:07"],
    [str |-> "[05:09]",       paired |-> TRUE,  mixed |-> FALSE, m |-> 5,  ss |-> 9,  time |-> "5:09"],
    [str |-> "[9:99]",        paired |-> TRUE,  mixed |-> FALSE, m |-> 9,  ss |-> 99, time |-> "9:99"],
    [str |-> "(0:45]",        paired |-> FALSE, mixed |-> TRUE,  m |-> 0,  ss |-> 45, time |-> "0:45"],
    [str |-> "[1:5]",         paired |-> FALSE, mixed |-> FALSE, m |-> 0,  ss |-> 0,  time |-> ""],
    [str |-> " jab ",         paired |-> FALSE, mixed |-> FALSE, m |-> 0,  ss |-> 0,  time |-> ""],
    [str |-> "\n",            paired |-> FALSE, mixed |-> FALSE, m |-> 0,  ss |-> 0,  time |-> ""] >>

\* lines of a Markdown body.  kind: what the line is to a reader ("h2": a
\* '##' heading, "bold": a bold all-caps heading, "deep": a line of four
\* hashes, which is body text to the parser, "content", "blank"); title:
\* the heading's text; marks: the time markers written in the line.
SecLines == <<
    [str |-> "  ## A",        kind |-> "h2",      title |-> "A",        marks |-> 0],
    [str |-> "## B [0:10]",   kind |-> "h2",      title |-> "B [0:10]", marks |-> 1],
    [str |-> "## **",         kind |-> "h2",      title |-> "",         marks |-> 0],
    [str |-> "**RING IQ**",   kind |-> "bold",    title |-> "RING IQ",  marks |-> 0],
    [str |-> "jab [0:45]",    kind |-> "content", title |-> "",         marks |-> 1],
    [str |-> "  pad (1:05) ", kind |-> "content", title |-> "",         marks |-> 1],
    [str |-> "#### deep",     kind |-> "deep",    title |-> "",         marks |-> 0],
    [str |-> "",              kind |-> "blank",   title |-> "",         marks |-> 0],
    [str |-> " ",             kind |-> "blank",   title |-> "",         marks |-> 0] >>

\* lines of a report with list items.  kind: "heading" or "item"; group:
\* the items whose titles start with the same 30 characters, letter case
\* aside; bold: the item names its subject in a bold run; marks: the start
\* times, in seconds, of the time markers written in the line.
FindLines == <<
    [str |-> "## WEAKNESSES",
     kind |-> "heading", group |-> "", bold |-> FALSE, marks |-> <<>>],
    [str |-> "## STRENGTHS",
     kind |-> "heading", group |-> "", bold |-> FALSE, marks |-> <<>>],
    [str |-> "- **Drops hands** after the jab [0:50]",
     kind |-> "item", group |-> "drops", bold |-> TRUE, marks |-> <<50>>],
    [str |-> "- **DROPS HANDS** when tired [0:10], [2:12]",
     kind |-> "item", group |-> "drops", bold |-> TRUE, marks |-> <<10, 132>>],
    [str |-> "1. Circles toward the power hand each time he resets his stance, and pays [0:30].",
     kind |-> "item", group |-> "circles", bold |-> FALSE, marks |-> <<30>>],
    [str |-> "- **Circles toward the power hand each time he resets his stance late** (1:05-1:20)",
     kind |-> "item", group |-> "circles", bold |-> TRUE, marks |-> <<65>>],
    [str |-> "- Telegraphs the overhand right",
     kind |-> "item", group |-> "telegraphs", bold |-> FALSE, marks |-> <<>>],
    [str |-> "- [0:45] [0:50] [0:10]",
     kind |-> "item", group |-> "untitled", bold |-> FALSE, marks |-> <<45, 50, 10>>] >>

\* an assessment section with a long summary.  len: the number of
\* characters of the summary; marks: the offsets, counted from 0 and in
\* ascending order, at which it has a sentence-ending character, the others
\* being letters; rot: which of the three characters the first mark is;
\* labelled: the Archetype and Level lines stand before the summary.
MaxMarks == 2
SummaryLens == {1500, 1501, 1600}
MarkOffsets == {300, 500, 501, 1499, 1500, 1501}
Punctuation == <<".", "?", "!">>

Increasing(S, n) ==
    {m \in SeqsUpTo(S, n) : \A i \in 1..(Len(m) - 1) : m[i] < m[i + 1]}

Summaries ==
    [len : SummaryLens, marks : Increasing(MarkOffsets, MaxMarks),
     rot : 0..2, labelled : BOOLEAN]

\* the character written at offset k of the summary
SummaryCh(p, k) ==
    IF \E i \in 1..Len(p.marks) : p.marks[i] = k
    THEN Punctuation[(((CHOOSE i \in 1..Len(p.marks) : p.marks[i] = k) + p.rot) % 3) + 1]
    ELSE "a"

SummaryText(p) == ConcatMap(LAMBDA k : SummaryCh(p, k - 1), 1, p.len)

AssessmentText(p) ==
    "## OVERALL ASSESSMENT\n"
        \o (IF p.labelled
            THEN "**Archetype:** Pressure Fighter\n**Current Level:** Amateur\n\n"
            ELSE "")
        \o SummaryText(p)

\* lines of a report with a decision tree.  rule: the line states a rule
\* "IF <trigger> THEN <response>"; first: the start time, in seconds, of the
\* first time marker of the line, -1 when it has none.
MaxRules == 2
TreeLines == <<
    [str |-> "## DECISION TREE",  rule |-> FALSE, first |-> -1],
    [str |-> "## Counter Logic",  rule |-> FALSE, first |-> -1],
    [str |-> "## STRENGTHS",      rule |-> FALSE, first |-> -1],
    [str |-> "- IF **jabs lazily** THEN **slip outside** [0:12]",
     rule |-> TRUE,  first |-> 12],
    [str |-> "2. if he shells up (1:05) then go to the body [0:12]",
     rule |-> TRUE,  first |-> 65],
    [str |-> "When tired, IF pressured THEN reset; if cut off then pivot",
     rule |-> TRUE,  first |-> -1],
    [str |-> "IF   THEN clinch",  rule |-> FALSE, first |-> -1],
    [str |-> "- Stiff jab, then circle out [0:30]",
     rule |-> FALSE, first |-> 30],
    [str |-> "",                  rule |-> FALSE, first |-> -1] >>

\* blocks of a whole report.  kind: what the block is to a reader
\* ("findings", "strengths", "assessment", "improvements", "gameplan": a
\* section of that sort, "text": a paragraph); critical: the findings
\* written under a heading that makes them critical; weak: the findings
\* written with fewer than two time markers and not as unclear; labelled:
\* the block has Level and Archetype labels; marks: the time markers
\* written in the block, as the time and the seconds a reader takes from them.
MaxBlocks == 2
AnalysisTypes == {"full", "quick", "progress"}

ReportBlocks == <<
    [str |-> "## MAJOR HOLES\n- **Chin up** unclear why\n- **Wide hooks** unclear why\n- **Flat feet** unclear why\n- **Lazy jab** unclear why\n- **Squares up** unclear why\n- **Backs up** unclear why",
     kind |-> "findings", critical |-> 6, weak |-> 0, labelled |-> FALSE, marks |-> <<>>],
    [str |-> "## MAJOR HOLES\n- **Chin up** unclear why\n- **Wide hooks** unclear why\n- **Flat feet** unclear why\n- **Lazy jab** unclear why\n- **Squares up** unclear why\n- **Reaches** on the cross",
     kind |-> "findings", critical |-> 6, weak |-> 1, labelled |-> FALSE, marks |-> <<>>],
    [str |-> "## WEAKNESSES\n- Drops the rear hand [1:05]\nwhen tired\nlate\n- Leans over the front foot [0:65] [0:10]\n- Minor: crosses feet on exits",
     kind |-> "findings", critical |-> 0, weak |-> 2, labelled |-> FALSE,
     marks |-> <<[time |-> "1:05", seconds |-> 65], [time |-> "0:65", seconds |-> 65],
                 [time |-> "0:10", seconds |-> 10]>>],
    [str |-> "## STRENGTHS\n- **Sharp jab** lands clean [0:65] [0:30]",
     kind |-> "strengths", critical |-> 0, weak |-> 0, labelled |-> FALSE,
     marks |-> <<[time |-> "0:65", seconds |-> 65], [time |-> "0:30", seconds |-> 30]>>],
    [str |-> "## OVERALL ASSESSMENT\n**Archetype:** Pressure Fighter\n**Current Level:** Amateur\nSolid base. Needs defense.",
     kind |-> "assessment", critical |-> 0, weak |-> 0, labelled |-> TRUE, marks |-> <<>>],
    [str |-> "Level: Amateur, archetype: brawler",
     kind |-> "text", critical |-> 0, weak |-> 0, labelled |-> TRUE, marks |-> <<>>],
    [str |-> "## PRIORITY FIXES\n1. Work on: head movement. Drill: slip rope [0:40]\n- Keep the chin tucked when exiting",
     kind |-> "improvements", critical |-> 0, weak |-> 0, labelled |-> FALSE,
     marks |-> <<[time |-> "0:40", seconds |-> 40]>>],
    [str |-> "## IF I WERE YOUR OPPONENT\n\"Pressure early\"\n**Corner AI Verdict** sharp",
     kind |-> "gameplan", critical |-> 0, weak |-> 0, labelled |-> FALSE, marks |-> <<>>] >>

\* words around time markers.  marker: the piece is a time marker; cat:
\* the keyword set a word of the piece belongs to, "none" when to none;
\* far: the piece is a rule of 50 characters, so that what stands beyond
\* it is outside the context of a marker on its other side.
CtxPieces == <<
    [str |-> "[0:45]",        marker |-> TRUE,  cat |-> "none",      kw |-> 0, far |-> FALSE],
    [str |-> "(1:05-1:20)",   marker |-> TRUE,  cat |-> "none",      kw |-> 0, far |-> FALSE],
    [str |-> "jab",           marker |-> FALSE, cat |-> "striking",  kw |-> 3, far |-> FALSE],
    [str |-> "clinch",        marker |-> FALSE, cat |-> "grappling", kw |-> 6, far |-> FALSE],
    [str |-> "slips",         marker |-> FALSE, cat |-> "defensive", kw |-> 4, far |-> FALSE],
    [str |-> "always",        marker |-> FALSE, cat |-> "pattern",   kw |-> 6, far |-> FALSE],
    [str |-> "Head Movement", marker |-> FALSE, cat |-> "defensive", kw |-> 13, far |-> FALSE],
    [str |-> "mental cardio", marker |-> FALSE, cat |-> "none",      kw |-> 0, far |-> FALSE],
    [str |-> "movement",      marker |-> FALSE, cat |-> "none",      kw |-> 0, far |-> FALSE],
    [str |-> "GUARD",         marker |-> FALSE, cat |-> "grappling", kw |-> 5, far |-> FALSE],
    [str |-> "==================================================",
                              marker |-> FALSE, cat |-> "none",      kw |-> 0, far |-> TRUE] >>

\* the most pieces of a text of words and markers
MaxCtx == 3

\* the pieces joined by " "
WordsText(table, ps) ==
    ConcatMap(LAMBDA k : (IF k > 1 THEN " " ELSE "") \o table[ps[k]].str, 1, Len(ps))

\* the headings of a section of items
ItemTitles == <<"## WEAKNESSES", "## MAJOR HOLES", "## STRENGTHS">>

\* lines of a section of items, as written.  leading: what the line begins
\* with; body: the text after that leading prefix; marks: how many time
\* markers it holds; conf, sev: the explicit confidence and severity keyword
\* of highest priority in the body, "" when it holds none; marker: the first
\* contrastive marker of the body and after: the text that follows it up
\* to the next '.'; finding, strength: the description of the item
\* extractFindings and extractStrengths make of the line, "" for none.
ItemLines == <<
    [str |-> "- Drops hands after jab [0:45], [2:12]",
     leading |-> "bullet", body |-> "Drops hands after jab [0:45], [2:12]", marks |-> 2,
     conf |-> "", sev |-> "", marker |-> "", after |-> "",
     finding |-> "Drops hands after jab [0:45], [2:12]",
     strength |-> "Drops hands after jab [0:45], [2:12]"],
    [str |-> "- Telegraphs the overhand right",
     leading |-> "bullet", body |-> "Telegraphs the overhand right", marks |-> 0,
     conf |-> "", sev |-> "", marker |-> "", after |-> "",
     finding |-> "Telegraphs the overhand right",
     strength |-> "Telegraphs the overhand right"],
    [str |-> "1. Reaches on the cross [0:10] [0:20] [0:30]",
     leading |-> "number", body |-> "Reaches on the cross [0:10] [0:20] [0:30]", marks |-> 3,
     conf |-> "", sev |-> "", marker |-> "", after |-> "",
     finding |-> "Reaches on the cross [0:10] [0:20] [0:30]",
     strength |-> "Reaches on the cross [0:10] [0:20] [0:30]"],
    [str |-> "- Unclear guard recovery [0:10] [0:20] [0:30]",
     leading |-> "bullet", body |-> "Unclear guard recovery [0:10] [0:20] [0:30]", marks |-> 3,
     conf |-> "inconclusive", sev |-> "", marker |-> "", after |-> "",
     finding |-> "Unclear guard recovery [0:10] [0:20] [0:30]",
     strength |-> "Unclear guard recovery [0:10] [0:20] [0:30]"],
    [str |-> "* Low confidence, inconclusive footwork, however sharp",
     leading |-> "bullet", body |-> "Low confidence, inconclusive footwork, however sharp",
     marks |-> 0,
     conf |-> "inconclusive", sev |-> "low", marker |-> "however", after |-> "sharp",
     finding |-> "Low confidence, inconclusive footwork, however sharp",
     strength |-> "Low confidence, inconclusive footwork, however sharp"],
    [str |-> "- Low confidence: critical but minor gap [0:05] [0:15] [0:25]",
     leading |-> "bullet", body |-> "Low confidence: critical but minor gap [0:05] [0:15] [0:25]",
     marks |-> 3,
     conf |-> "low", sev |-> "critical", marker |-> "but",
     after |-> "minor gap [0:05] [0:15] [0:25]",
     finding |-> "Low confidence: critical but minor gap [0:05] [0:15] [0:25]",
     strength |-> "Low confidence: critical but minor gap [0:05] [0:15] [0:25]"],
    [str |-> "Round 2. He drops his guard",
     leading |-> "none", body |-> "", marks |-> 0,
     conf |-> "", sev |-> "", marker |-> "", after |-> "",
     finding |-> "Round He drops his guard",
     strength |-> "Round He drops his guard"],
    [str |-> "- Dangerous small step. Counter-evidence: clean exits late. Again",
     leading |-> "bullet",
     body |-> "Dangerous small step. Counter-evidence: clean exits late. Again", marks |-> 0,
     conf |-> "", sev |-> "high", marker |-> "counter-evidence:", after |-> "clean exits late",
     finding |-> "Dangerous small step. Counter-evidence: clean exits late. Again",
     strength |-> "Dangerous small step. Counter-evidence: clean exits late. Again"],
    [str |-> "-          jab lazy",
     leading |-> "bullet", body |-> "jab lazy", marks |-> 0,
     conf |-> "", sev |-> "", marker |-> "", after |-> "",
     finding |-> "", strength |-> ""],
    [str |-> "Plain sentence without a prefix",
     leading |-> "none", body |-> "", marks |-> 0,
     conf |-> "", sev |-> "", marker |-> "", after |-> "",
     finding |-> "", strength |-> ""],
    [str |-> "Lands 3.5 of 4 jabs clean",
     leading |-> "none", body |-> "", marks |-> 0,
     conf |-> "", sev |-> "", marker |-> "", after |-> "",
     finding |-> "", strength |-> "Lands 5 of 4 jabs clean"],
    [str |-> "- Jabs well, although counter-evidence: heavy feet",
     leading |-> "bullet", body |-> "Jabs well, although counter-evidence: heavy feet",
     marks |-> 0,
     conf |-> "", sev |-> "", marker |-> "although", after |-> "counter-evidence: heavy feet",
     finding |-> "Jabs well, although counter-evidence: heavy feet",
     strength |-> "Jabs well, although counter-evidence: heavy feet"] >>

\* the most blank lines between the two items of a section
MaxPad == 5

RECURSIVE BlankLines(_)
BlankLines(n) == IF n = 0 THEN "" ELSE "\n" \o BlankLines(n - 1)

\* a heading, an item, pad blank lines and a second item
ItemsText(ps) ==
    ItemTitles[ps[1]] \o "\n" \o ItemLines[ps[2]].str \o "\n"
        \o BlankLines(ps[3]) \o ItemLines[ps[4]].str

\* the pieces written one after the other
PiecesText(table, ps) == ConcatMap(LAMBDA k : table[ps[k]].str, 1, Len(ps))

\* the lines joined by "\n"
LinesText(table, ps) ==
    ConcatMap(LAMBDA k : (IF k > 1 THEN "\n" ELSE "") \o table[ps[k]].str, 1, Len(ps))

----------------------------------------------------------------------------
\* Specifications: the input is drawn, then the exported functions are applied

\* the value of assessment before extractOverallAssessment has run
NoAssessment == [level |-> "", archetype |-> "", summary |-> ""]

\* useState({stage: 'idle', message: '', percent: 0})
IdleProgress == [stage |-> "idle", message |-> "", percent |-> 0]

\* the value of input before analyze is called, and of effects before
\* generateReportFromTemplate has read a file or called the model
NoInput == [analysisType |-> "", videos |-> 0]
NoOptions == [reportType |-> "", userVideos |-> <<>>, opponentVideos |-> <<>>,
              imageFiles |-> <<>>]
NoEffects == [validated |-> FALSE, read |-> 0, asked |-> 0, response |-> "none"]

Blank ==
    /\ timestamps = <<>>
    /\ sections = <<>>
    /\ reparsed = <<>>
    /\ picked = [k |-> 0, form |-> "none"]
    /\ findings = <<>>
    /\ strengths = <<>>
    /\ uuid = 0
    /\ assessment = NoAssessment
    /\ nodes = <<>>
    /\ reports = <<>>
    /\ clock = 0
    /\ currentSection = <<>>
    /\ lineNo = 0
    /\ report = <<>>
    /\ isAnalyzing = FALSE
    /\ error = <<>>
    /\ progress = IdleProgress
    /\ storage = <<>>
    /\ input = NoInput
    /\ calls = 0
    /\ options = NoOptions
    /\ effects = NoEffects
    /\ thrown = <<>>

InitTimestamps ==
    /\ pc = "input"
    /\ parts \in SeqsUpTo(1..Len(TsPieces), MaxPieces)
    /\ text = PiecesText(TsPieces, parts)
    /\ Blank

InitSections ==
    /\ pc = "input"
    /\ parts \in SeqsUpTo(1..Len(SecLines), MaxLines)
    /\ text = LinesText(SecLines, parts)
    /\ Blank

\* a report: one of the two headings, then up to MaxItems further lines,
\* each an item or the heading of the strengths
InitFindings ==
    /\ pc = "input"
    /\ \E h \in 1..2, rest \in SeqsUpTo(2..Len(FindLines), MaxItems) : parts = <<h>> \o rest
    /\ text = LinesText(FindLines, parts)
    /\ Blank

\* extractTimestamps(text)
ExtractTimestamps ==
    /\ pc = "input"
    /\ timestamps' = extractTimestamps(text)
    /\ pc' = "timestamps"
    /\ UNCHANGED <<parts, text, sections, reparsed, picked, findings, strengths, uuid,
                   assessment, nodes, reports, clock>>
    /\ UNCHANGED <<loopVars, hookVars>>

\* parseReportSections(text)
ParseSections ==
    /\ pc = "input"
    /\ sections' = parseReportSections(text)
    /\ pc' = "parsed"
    /\ UNCHANGED <<parts, text, timestamps, reparsed, picked, findings, strengths, uuid,
                   assessment, nodes, reports, clock>>
    /\ UNCHANGED <<loopVars, hookVars>>

\* one turn of lines.forEach of parseReportSections, on the next line
ParseLine ==
    /\ pc = "input"
    /\ text # ""
    /\ lineNo < Len(SplitNL(text))
    /\ Bind(SectionStep([sections |-> sections, cur |-> currentSection],
                        SplitNL(text)[lineNo + 1]),
            LAMBDA acc : sections' = acc.sections /\ currentSection' = acc.cur)
    /\ lineNo' = lineNo + 1
    /\ UNCHANGED <<pc, parts, text, timestamps, reparsed, picked, findings, strengths, uuid,
                   assessment, nodes, reports, clock, hookVars>>

\* the end of parseReportSections: "Push last section" and return, or the
\* early return on the empty text
PushLastSection ==
    /\ pc = "input"
    /\ text = "" \/ lineNo = Len(SplitNL(text))
    /\ sections' = IF text = "" THEN <<>>
                   ELSE PushLast([sections |-> sections, cur |-> currentSection])
    /\ pc' = "parsed"
    /\ UNCHANGED <<parts, text, timestamps, reparsed, picked, findings, strengths, uuid,
                   assessment, nodes, reports, clock, loopVars, hookVars>>

\* a section written back as text: its title and content one after the
\* other ("concat"), or its title as a '##' heading line followed by its
\* content ("heading")
RenderSection(sec, form) ==
    IF form = "concat" THEN sec.title \o sec.content
    ELSE "## " \o sec.title \o "\n" \o sec.content

\* parseReportSections on one of the sections it returned, written back as text
Reparse ==
    /\ pc = "parsed"
    /\ \E k \in 1..Len(sections), form \in {"concat", "heading"} :
          /\ picked' = [k |-> k, form |-> form]
          /\ reparsed' = parseReportSections(RenderSection(sections[k], form))
    /\ pc' = "reparsed"
    /\ UNCHANGED <<parts, text, timestamps, sections, findings, strengths, uuid,
                   assessment, nodes, reports, clock>>
    /\ UNCHANGED <<loopVars, hookVars>>

\* extractFindings(sections, text): one identifier is drawn for every
\* object created, also for those deduplication drops
ExtractFindings ==
    /\ pc = "parsed"
    /\ findings' = extractFindings(sections, uuid)
    /\ uuid' = uuid + Len(CollectFindings(sections, 1))
    /\ pc' = "findings"
    /\ UNCHANGED <<parts, text, timestamps, sections, reparsed, picked, strengths,
                   assessment, nodes, reports, clock>>
    /\ UNCHANGED <<loopVars, hookVars>>

\* extractStrengths(sections, text)
ExtractStrengths ==
    /\ pc = "parsed"
    /\ strengths' = extractStrengths(sections, uuid)
    /\ uuid' = uuid + Len(CollectStrengths(sections, 1))
    /\ pc' = "strengths"
    /\ UNCHANGED <<parts, text, timestamps, sections, reparsed, picked, findings,
                   assessment, nodes, reports, clock>>
    /\ UNCHANGED <<loopVars, hookVars>>

InitAssessment ==
    /\ pc = "input"
    /\ \E p \in Summaries : parts = <<p>>
    /\ text = AssessmentText(parts[1])
    /\ Blank

\* extractOverallAssessment(sections, text)
ExtractOverallAssessment ==
    /\ pc = "parsed"
    /\ assessment' = extractOverallAssessment(sections, text)
    /\ pc' = "assessment"
    /\ UNCHANGED <<parts, text, timestamps, sections, reparsed, picked, findings, strengths,
                   uuid, nodes, reports, clock>>
    /\ UNCHANGED <<loopVars, hookVars>>

\* a report: one of the three headings, then up to MaxRules further lines
InitDecision ==
    /\ pc = "input"
    /\ \E h \in 1..3, rest \in SeqsUpTo(4..Len(TreeLines), MaxRules) : parts = <<h>> \o rest
    /\ text = LinesText(TreeLines, parts)
    /\ Blank

\* extractDecisionTree(sections)
ExtractDecisionTree ==
    /\ pc = "parsed"
    /\ nodes' = extractDecisionTree(sections)
    /\ pc' = "tree"
    /\ UNCHANGED <<parts, text, timestamps, sections, reparsed, picked, findings, strengths,
                   uuid, assessment, reports, clock>>
    /\ UNCHANGED <<loopVars, hookVars>>

\* a report of up to MaxBlocks blocks, the empty text among them
InitReport ==
    /\ pc = "input"
    /\ parts \in SeqsUpTo(1..Len(ReportBlocks), MaxBlocks)
    /\ text = LinesText(ReportBlocks, parts)
    /\ Blank

\* up to MaxCtx words and markers, one space between them
InitCategories ==
    /\ pc = "input"
    /\ parts \in SeqsUpTo(1..Len(CtxPieces), MaxCtx)
    /\ text = WordsText(CtxPieces, parts)
    /\ Blank

\* a section of two items, a number of blank lines between them
InitItems ==
    /\ pc = "input"
    /\ \E h \in 1..Len(ItemTitles), a, b \in 1..Len(ItemLines), pad \in 0..MaxPad :
          parts = <<h, a, pad, b>>
    /\ text = ItemsText(parts)
    /\ Blank

\* up to MaxLines lines out of a heading with a time marker, a bold
\* heading, two body lines with a marker each and an empty line
MarkLines == {2, 4, 5, 6, 8}
InitMarks ==
    /\ pc = "input"
    /\ parts \in SeqsUpTo(MarkLines, MaxLines)
    /\ text = LinesText(SecLines, parts)
    /\ Blank

\* parseSelfScoutReport(text, analysisType), called a first and then a
\* second time on the same text.  analysisType is only copied into the
\* report, whose identifier is the last one the call draws.
ParseSelfScoutReport ==
    /\ pc \in {"input", "report"}
    /\ Bind(parseSelfScoutReport(text, "full", uuid, clock), LAMBDA parsedReport :
            /\ \E analysisType \in AnalysisTypes :
                  reports' = Append(reports, [parsedReport EXCEPT !.analysisType = analysisType])
            /\ uuid' = parsedReport.id)
    /\ clock' = clock + 1
    /\ pc' = IF pc = "input" THEN "report" ELSE "again"
    /\ UNCHANGED <<parts, text, timestamps, sections, reparsed, picked, findings, strengths,
                   assessment, nodes>>
    /\ UNCHANGED <<loopVars, hookVars>>

NextTimestamps == ExtractTimestamps
SpecTimestamps == InitTimestamps /\ [][NextTimestamps]_vars

NextSections == ParseSections \/ Reparse
SpecSections == InitSections /\ [][NextSections]_vars

NextFindings == ParseSections \/ ExtractFindings \/ ExtractStrengths
SpecFindings == InitFindings /\ [][NextFindings]_vars

NextParser == ParseLine \/ PushLastSection
SpecParser == InitSections /\ [][NextParser]_vars

\* what the report generation and the hook leave alone
parserVars == <<timestamps, sections, reparsed, picked, findings, strengths, assessment,
                nodes, loopVars>>

\* the most files of one kind passed to generateReportFromTemplate
MaxVideos == 2

\* the report types passed: those of the type ReportType, a template that
\* is not among them, two names without a template, and two keys that
\* PROMPTS inherits
PassedTypes == {"SELF_SCOUT_FULL", "SELF_SCOUT_QUICK", "SELF_SCOUT_PROGRESS",
                "OPPONENT_BREAKDOWN_FULL", "OPPONENT_BREAKDOWN_QUICK", "GAME_PLAN_FULL",
                "GAME_PLAN_QUICK", "FIGHT_SCORING", "SELF_SCOUT_DEEP", "",
                "constructor", "toString"}

\* an option that is an array of files: absent, or of 0..MaxVideos files
FileLists == {<<>>} \cup {<<n>> : n \in 0..MaxVideos}

\* the blocks of ReportBlocks the model answers with
ResponseBlocks == {3, 4, 7}

\* a call of generateReportFromTemplate(options)
InitGenerate ==
    /\ pc = "getPrompt"
    /\ parts = <<>>
    /\ text = ""
    /\ timestamps = <<>> /\ sections = <<>> /\ reparsed = <<>>
    /\ picked = [k |-> 0, form |-> "none"]
    /\ findings = <<>> /\ strengths = <<>> /\ uuid = 0
    /\ assessment = NoAssessment /\ nodes = <<>> /\ reports = <<>> /\ clock = 0
    /\ currentSection = <<>> /\ lineNo = 0
    /\ report = <<>> /\ isAnalyzing = FALSE /\ error = <<>>
    /\ progress = IdleProgress /\ storage = <<>> /\ input = NoInput /\ calls = 0
    /\ \E t \in PassedTypes, u, o \in FileLists, i \in {<<>>, <<1>>} :
          options = [reportType |-> t, userVideos |-> u, opponentVideos |-> o,
                     imageFiles |-> i]
    /\ effects = NoEffects
    /\ thrown = <<>>

\* "Get the prompt template"
GetPrompt ==
    /\ pc = "getPrompt"
    /\ IF getPrompt(options.reportType) = <<>>
       THEN /\ thrown' = <<ErrorOf("Unknown report type: " \o options.reportType)>>
            /\ pc' = "threw"
       ELSE /\ pc' = "validate"
            /\ UNCHANGED thrown
    /\ UNCHANGED <<parts, text, uuid, reports, clock, parserVars, report, isAnalyzing, error,
                   progress, storage, input, calls, options, effects>>

\* "Validate inputs": validateInputs reads template.requiredInputs, which
\* an inherited value does not have
ValidateInputs ==
    /\ pc = "validate"
    /\ Bind(getPrompt(options.reportType)[1], LAMBDA template :
            IF ~template.own
            THEN /\ thrown' = <<NotIterable>>
                 /\ pc' = "threw"
                 /\ UNCHANGED effects
            ELSE Bind(validateInputs(template,
                                     [userVideo     |-> LengthOr0(options.userVideos),
                                      opponentVideo |-> LengthOr0(options.opponentVideos)]),
                      LAMBDA validation :
                      /\ effects' = [effects EXCEPT !.validated = TRUE]
                      /\ IF ~validation.valid
                         THEN /\ thrown' = <<ErrorOf("Missing required inputs: "
                                                       \o JoinComma(validation.missing))>>
                              /\ pc' = "threw"
                         ELSE /\ pc' = "read"
                              /\ UNCHANGED thrown))
    /\ UNCHANGED <<parts, text, uuid, reports, clock, parserVars, report, isAnalyzing, error,
                   progress, storage, input, calls, options>>

\* await fileToGenerativePart(file) for the next file: the reader loads it
\* or fails
ReadFile ==
    /\ pc = "read"
    /\ effects.read < FilesOf(options)
    /\ effects' = [effects EXCEPT !.read = @ + 1]
    /\ \E loaded \in BOOLEAN :
          IF loaded THEN UNCHANGED <<pc, thrown>>
          ELSE thrown' = <<ReadFailed>> /\ pc' = "threw"
    /\ UNCHANGED <<parts, text, uuid, reports, clock, parserVars, report, isAnalyzing, error,
                   progress, storage, input, calls, options>>

\* ai.models.generateContent(...), once every file is attached
CallModel ==
    /\ pc = "read"
    /\ effects.read = FilesOf(options)
    /\ effects' = [effects EXCEPT !.asked = @ + 1]
    /\ pc' = "awaiting"
    /\ UNCHANGED <<parts, text, uuid, reports, clock, parserVars, report, isAnalyzing, error,
                   progress, storage, input, calls, options, thrown>>

\* the model call settles: with a text, with an empty response, or rejected
ModelResponds ==
    /\ pc = "awaiting"
    /\ \/ \E b \in ResponseBlocks :
             /\ parts' = <<b>>
             /\ text' = ReportBlocks[b].str
             /\ effects' = [effects EXCEPT !.response = "text"]
             /\ pc' = "returned"
             /\ UNCHANGED thrown
       \/ /\ effects' = [effects EXCEPT !.response = "empty"]
          /\ thrown' = <<ErrorOf("No report generated.")>>
          /\ pc' = "threw"
          /\ UNCHANGED <<parts, text>>
       \/ /\ effects' = [effects EXCEPT !.response = "rejected"]
          /\ thrown' = <<ErrorOf("fetch failed")>>
          /\ pc' = "threw"
          /\ UNCHANGED <<parts, text>>
    /\ UNCHANGED <<uuid, reports, clock, parserVars, report, isAnalyzing, error,
                   progress, storage, input, calls, options>>

NextGenerate == GetPrompt \/ ValidateInputs \/ ReadFile \/ CallModel \/ ModelResponds
SpecGenerate == InitGenerate /\ [][NextGenerate]_vars

----------------------------------------------------------------------------
\* The hook useSelfScout

\* the most calls of analyze in one behaviour
MaxCalls == 2

\* ANALYSIS_TYPE_TO_REPORT_TYPE[analysisType], <<>> when undefined
AnalysisTypeToReportType(analysisType) ==
    IF analysisType = "full" THEN <<"SELF_SCOUT_FULL">>
    ELSE IF analysisType = "quick" THEN <<"SELF_SCOUT_QUICK">>
    ELSE IF analysisType = "progress" THEN <<"SELF_SCOUT_PROGRESS">>
    ELSE <<>>

\* the analysis types passed to analyze: those of SelfScoutInput and one
\* that is not among them
PassedAnalysisTypes == {"full", "quick", "progress", "deep"}

\* JSON.stringify(parsedReport): the Date generatedAt becomes its ISO string
Stringify(parsedReport) ==
    [parses |-> TRUE, value |-> [parsedReport EXCEPT !.generatedAt = <<"iso", @>>]]

\* JSON.parse(stored), with generatedAt revived to a Date
Revive(stored) == [stored.value EXCEPT !.generatedAt = @[2]]

\* a stored item that is not JSON
Garbage == [parses |-> FALSE, value |-> <<>>]

\* what local storage holds when the hook mounts: nothing, an item that
\* does not parse, or the report an earlier analysis stored
StoredAtMount ==
    {<<>>, <<Garbage>>, <<Stringify(parseSelfScoutReport(ReportBlocks[4].str, "quick", 0, 0))>>}

\* localStorage.setItem failing
QuotaExceeded == [name |-> "QuotaExceededError", message |-> "The quota has been exceeded."]

\* err instanceof Error: true of the errors and of the DOMException, not of
\* the ProgressEvent a failed file read rejects with
InstanceOfError(err) == err.name \in {"Error", "TypeError", "QuotaExceededError"}

\* err instanceof Error ? err : new Error('Analysis failed')
Caught(err) == IF InstanceOfError(err) THEN err ELSE ErrorOf("Analysis failed")

ErrorProgressKeepsPercent(err) == [stage |-> "error", message |-> err.message, percent |-> 30]

\* the progress set in the catch block
ErrorProgress(err) == [stage |-> "error", message |-> err.message, percent |-> 0]

\* the hook is mounted on a page whose local storage holds nothing, garbage
\* or an earlier report
InitScout ==
    /\ pc = "mount"
    /\ parts = <<>>
    /\ text = ""
    /\ timestamps = <<>> /\ sections = <<>> /\ reparsed = <<>>
    /\ picked = [k |-> 0, form |-> "none"]
    /\ findings = <<>> /\ strengths = <<>> /\ uuid = 0
    /\ assessment = NoAssessment /\ nodes = <<>> /\ reports = <<>> /\ clock = 1
    /\ currentSection = <<>> /\ lineNo = 0
    /\ report = <<>> /\ isAnalyzing = FALSE /\ error = <<>>
    /\ progress = IdleProgress /\ input = NoInput /\ calls = 0
    /\ storage \in StoredAtMount
    /\ options = NoOptions
    /\ effects = NoEffects
    /\ thrown = <<>>

\* "Load from local storage on mount"
Mount ==
    /\ pc = "mount"
    /\ report' = IF storage # <<>> /\ storage[1].parses THEN <<Revive(storage[1])>> ELSE report
    /\ pc' = "idle"
    /\ UNCHANGED <<parts, text, uuid, reports, clock, parserVars, isAnalyzing, error, progress,
                   storage, input, calls, options, effects, thrown>>

\* reset(); the page offers it only while no analysis runs
Reset ==
    /\ pc \in {"idle", "settled"}
    /\ report' = <<>>
    /\ error' = <<>>
    /\ progress' = IdleProgress
    /\ storage' = <<>>
    /\ pc' = "idle"
    /\ UNCHANGED <<parts, text, uuid, reports, clock, parserVars, isAnalyzing, input, calls,
                   options, effects, thrown>>

\* analyze(input), up to the lookup of the report type
Analyze ==
    /\ pc \in {"idle", "settled"}
    /\ calls < MaxCalls
    /\ calls' = calls + 1
    /\ isAnalyzing' = TRUE
    /\ error' = <<>>
    /\ report' = <<>>
    /\ \E analysisType \in PassedAnalysisTypes, videos \in 0..MaxVideos :
          /\ input' = [analysisType |-> analysisType, videos |-> videos]
          /\ IF AnalysisTypeToReportType(analysisType) = <<>>
             THEN /\ thrown' = <<ErrorOf("Unknown analysis type: " \o analysisType)>>
                  /\ pc' = "threw"
             ELSE /\ thrown' = <<>>
                  /\ pc' = "uploading"
    /\ UNCHANGED <<parts, text, uuid, reports, clock, parserVars, progress, storage, options,
                   effects>>

\* the first setProgress
SetUploading ==
    /\ pc = "uploading"
    /\ progress' = [stage |-> "uploading", message |-> "Preparing video for analysis...",
                    percent |-> 10]
    /\ pc' = "analyzing"
    /\ UNCHANGED <<parts, text, uuid, reports, clock, parserVars, report, isAnalyzing, error,
                   storage, input, calls, options, effects, thrown>>

\* the second setProgress and the call of generateReportFromTemplate
SetAnalyzing ==
    /\ pc = "analyzing"
    /\ progress' = [stage |-> "analyzing", message |-> "Analyzing footage with AI...",
                    percent |-> 30]
    /\ options' = [reportType     |-> AnalysisTypeToReportType(input.analysisType)[1],
                   userVideos     |-> <<input.videos>>,
                   opponentVideos |-> <<>>,
                   imageFiles     |-> <<>>]
    /\ effects' = NoEffects
    /\ pc' = "getPrompt"
    /\ UNCHANGED <<parts, text, uuid, reports, clock, parserVars, report, isAnalyzing, error,
                   storage, input, calls, thrown>>

\* the third setProgress, once the raw response has arrived
SetParsing ==
    /\ pc = "returned"
    /\ progress' = [stage |-> "parsing", message |-> "Processing analysis results...",
                    percent |-> 80]
    /\ pc' = "parsing"
    /\ UNCHANGED <<parts, text, uuid, reports, clock, parserVars, report, isAnalyzing, error,
                   storage, input, calls, options, effects, thrown>>

\* parseSelfScoutReport(rawResponse, input.analysisType) and
\* localStorage.setItem, which stores the report or throws
ParseAndStore ==
    /\ pc = "parsing"
    /\ Bind(parseSelfScoutReport(text, input.analysisType, uuid, clock), LAMBDA parsedReport :
            /\ reports' = <<parsedReport>>
            /\ uuid' = parsedReport.id
            /\ \E stored \in BOOLEAN :
                  IF stored
                  THEN /\ storage' = <<Stringify(parsedReport)>>
                       /\ pc' = "stored"
                       /\ UNCHANGED thrown
                  ELSE /\ thrown' = <<QuotaExceeded>>
                       /\ pc' = "threw"
                       /\ UNCHANGED storage)
    /\ clock' = clock + 1
    /\ UNCHANGED <<parts, text, parserVars, report, isAnalyzing, error, progress, input, calls,
                   options, effects>>

\* the last setProgress
SetComplete ==
    /\ pc = "stored"
    /\ progress' = [stage |-> "complete", message |-> "Analysis complete!", percent |-> 100]
    /\ pc' = "complete"
    /\ UNCHANGED <<parts, text, uuid, reports, clock, parserVars, report, isAnalyzing, error,
                   storage, input, calls, options, effects, thrown>>

\* setReport(parsedReport); setIsAnalyzing(false); return parsedReport
Finish ==
    /\ pc = "complete"
    /\ report' = <<reports[1]>>
    /\ isAnalyzing' = FALSE
    /\ pc' = "settled"
    /\ UNCHANGED <<parts, text, uuid, reports, clock, parserVars, error, progress, storage,
                   input, calls, options, effects, thrown>>

\* the catch block of analyze
Catch ==
    /\ pc = "threw"
    /\ error' = <<Caught(thrown[1])>>
    /\ progress' = ErrorProgress(Caught(thrown[1]))
    /\ isAnalyzing' = FALSE
    /\ pc' = "settled"
    /\ UNCHANGED <<parts, text, uuid, reports, clock, parserVars, report, storage, input,
                   calls, options, effects, thrown>>

NextScout ==
    \/ Mount \/ Reset \/ Analyze \/ SetUploading \/ SetAnalyzing
    \/ GetPrompt \/ ValidateInputs \/ ReadFile \/ CallModel \/ ModelResponds
    \/ SetParsing \/ ParseAndStore \/ SetComplete \/ Finish \/ Catch
SpecScout == InitScout /\ [][NextScout]_vars

NextCategories == ExtractTimestamps
SpecCategories == InitCategories /\ [][NextCategories]_vars

NextMarks == ParseSelfScoutReport
SpecMarks == InitMarks /\ [][NextMarks]_vars

NextItems == ParseSections \/ ExtractFindings \/ ExtractStrengths
SpecItems == InitItems /\ [][NextItems]_vars

NextAssessment == ParseSections \/ ExtractOverallAssessment
SpecAssessment == InitAssessment /\ [][NextAssessment]_vars

NextDecision == ParseSections \/ ExtractDecisionTree
SpecDecision == InitDecision /\ [][NextDecision]_vars

NextReport == ParseSelfScoutReport
SpecReport == InitReport /\ [][NextReport]_vars

----------------------------------------------------------------------------
\* Properties of extractTimestamps, under SpecTimestamps

\* the pieces of the input that are markers of one of the four written forms
WrittenMarkers == SelectSeq(parts, LAMBDA p : TsPieces[p].paired)

\* C1: extractTimestamps returns exactly one Timestamp per marker of the
\* forms [M:SS], (M:SS), [M:SS-M:SS], (M:SS-M:SS), in text order and without
\* merging duplicates, each with seconds = M*60+SS and time "M:SS" of the
\* start time; the empty input gives the empty list.
C1_OneTimestampPerMarker ==
    pc = "timestamps" =>
        /\ Len(timestamps) = Len(WrittenMarkers)
        /\ \A k \in 1..Len(timestamps) :
              /\ timestamps[k].seconds
                     = TsPieces[WrittenMarkers[k]].m * 60 + TsPieces[WrittenMarkers[k]].ss
              /\ timestamps[k].time = TsPieces[WrittenMarkers[k]].time
        /\ (text = "" => timestamps = <<>>)

----------------------------------------------------------------------------
\* Properties of parseReportSections, under SpecSections

LineKind(ps, i) == SecLines[ps[i]].kind

\* positions of the lines the parser takes as headings
HeadingPositions(ps) == {i \in 1..Len(ps) : LineKind(ps, i) \in {"h2", "bold"}}

\* whether non-blank content precedes the first heading
HasPreamble(ps) ==
    \E i \in 1..Len(ps) : /\ LineKind(ps, i) \in {"content", "deep"}
                          /\ \A h \in HeadingPositions(ps) : i < h

\* where the sections start: at each heading, and at 0 for the preamble
Starts(ps) == HeadingPositions(ps) \cup (IF HasPreamble(ps) THEN {0} ELSE {})

\* the start of the k-th section
NthStart(ps, k) == CHOOSE a \in Starts(ps) : Cardinality({b \in Starts(ps) : b < a}) = k - 1

\* the last line before the next heading
ChunkEnd(ps, a) ==
    IF \E h \in HeadingPositions(ps) : h > a
    THEN (CHOOSE h \in HeadingPositions(ps) :
              h > a /\ \A g \in HeadingPositions(ps) : g > a => h <= g) - 1
    ELSE Len(ps)

\* the lines of the section that starts at a, a white-space-only line
\* written as an empty one
ChunkText(ps, a) ==
    ConcatMap(LAMBDA i : (IF LineKind(ps, i) = "blank" THEN "" ELSE SecLines[ps[i]].str) \o "\n",
              a + 1, ChunkEnd(ps, a))

\* the time markers written in the lines lo..hi
RECURSIVE MarksIn(_, _, _)
MarksIn(ps, lo, hi) ==
    IF lo > hi THEN 0 ELSE SecLines[ps[lo]].marks + MarksIn(ps, lo + 1, hi)

WrittenTitle(ps, a) == IF a = 0 THEN "Introduction" ELSE SecLines[ps[a]].title

\* every heading of the input is a '##' heading
OnlyH2(ps) == \A i \in 1..Len(ps) : LineKind(ps, i) \in {"h2", "content", "blank"}

\* C2: on an input whose only heading lines are N '##' headings,
\* parseReportSections returns N sections, in order, plus one leading section
\* with id "intro" and title "Introduction" if and only if non-blank content
\* precedes the first heading.
C2_SectionPerHeading ==
    (pc = "parsed" /\ OnlyH2(parts)) =>
        /\ Len(sections) = Cardinality(HeadingPositions(parts))
                               + (IF HasPreamble(parts) THEN 1 ELSE 0)
        /\ HasPreamble(parts) <=>
               (sections # <<>> /\ sections[1].id = "intro"
                                /\ sections[1].title = "Introduction")
        /\ \A k \in 1..Len(sections) :
              /\ sections[k].title = WrittenTitle(parts, NthStart(parts, k))
              /\ k > 1 => sections[k].id # "intro"

\* two headings after a preamble give three sections
C2_Witness ==
    /\ pc = "parsed"
    /\ OnlyH2(parts)
    /\ HasPreamble(parts)
    /\ Cardinality(HeadingPositions(parts)) = 2
    /\ Len(sections) = 3

\* the contents of the sections from the k-th on, line by line
RECURSIVE ContentLinesFrom(_, _)
ContentLinesFrom(secs, k) ==
    IF k > Len(secs) THEN <<>>
    ELSE SplitNL(secs[k].content) \o ContentLinesFrom(secs, k + 1)

\* the lines of the input that are neither headings nor blank
BodyLines == SelectSeq(parts, LAMBDA p : SecLines[p].kind \in {"content", "deep"})

\* C3 as stated: the contents of the sections, one after the other, are the
\* body without its heading lines; at the least their non-blank lines are
\* the non-blank lines of the body, as written.
C3_BodyReconstructed ==
    pc = "parsed" =>
        SelectSeq(ContentLinesFrom(sections, 1), LAMBDA l : Trim(l) # "")
            = [k \in 1..Len(BodyLines) |-> SecLines[BodyLines[k]].str]

\* C3: the content of each section is the text of the lines between its
\* heading and the next, white-space-only lines kept as empty lines, with
\* the white space and blank lines at both ends trimmed away.
C3_BodyReconstructedTrimmed ==
    pc = "parsed" =>
        /\ Len(sections) = Cardinality(Starts(parts))
        /\ \A k \in 1..Len(sections) :
              sections[k].content = Trim(ChunkText(parts, NthStart(parts, k)))

\* a paragraph break survives inside a section whose last line lost its
\* trailing space
C3_Witness ==
    /\ pc = "parsed"
    /\ \E k \in 1..Len(sections) :
          /\ Includes(sections[k].content, "\n\n")
          /\ sections[k].content # ChunkText(parts, NthStart(parts, k))
          /\ SecLines[parts[Len(parts)]].str = "  pad (1:05) "

\* C4 as stated: parsing the title of a section followed by its content
\* gives one section with that title and that content.
C4_ReparseConcatenation ==
    (pc = "reparsed" /\ picked.form = "concat") =>
        /\ Len(reparsed) = 1
        /\ reparsed[1].title = sections[picked.k].title
        /\ reparsed[1].content = sections[picked.k].content

\* C4: parsing a section written back as a '##' heading line with its title,
\* followed by its content, gives one section with that title and that
\* content, provided the title is not empty.
C4_ReparseHeading ==
    (pc = "reparsed" /\ picked.form = "heading" /\ sections[picked.k].title # "") =>
        /\ Len(reparsed) = 1
        /\ reparsed[1].title = sections[picked.k].title
        /\ reparsed[1].content = sections[picked.k].content

\* a section with a title and two lines of content was parsed again
C4_Witness ==
    /\ pc = "reparsed"
    /\ picked.form = "heading"
    /\ sections[picked.k].title # ""
    /\ Includes(sections[picked.k].content, "\n")
    /\ Len(reparsed) = 1

\* C5: the timestamps of each section are those extractTimestamps finds in
\* the section's own trimmed content: as many as there are markers in the
\* lines between its heading and the next, none from a heading line and
\* none from another section.
C5_OwnTimestamps ==
    pc = "parsed" =>
        /\ Len(sections) = Cardinality(Starts(parts))
        /\ \A k \in 1..Len(sections) :
              /\ sections[k].timestamps = extractTimestamps(sections[k].content)
              /\ Len(sections[k].timestamps)
                     = MarksIn(parts, NthStart(parts, k) + 1,
                               ChunkEnd(parts, NthStart(parts, k)))

\* a section whose heading holds a marker, and whose content holds another
C5_Witness ==
    /\ pc = "parsed"
    /\ \E k \in 1..Len(sections) :
          /\ sections[k].title = "B [0:10]"
          /\ Len(sections[k].timestamps) = 1
    /\ Len(sections) >= 2

----------------------------------------------------------------------------
\* Properties of extractFindings and extractStrengths, under SpecFindings

\* the heading the line at position i stands under
HeadingOf(ps, i) ==
    ps[CHOOSE h \in 1..i : /\ FindLines[ps[h]].kind = "heading"
                           /\ \A g \in (h + 1)..i : FindLines[ps[g]].kind # "heading"]

\* positions of the list items under the heading h (1: weaknesses, 2: strengths)
Eligible(ps, h) ==
    {i \in 1..Len(ps) : FindLines[ps[i]].kind = "item" /\ HeadingOf(ps, i) = h}

\* the first item, in document order, of the group of the item at position i
FirstOfGroup(ps, h, i) ==
    CHOOSE j \in Eligible(ps, h) :
        /\ FindLines[ps[j]].group = FindLines[ps[i]].group
        /\ \A l \in Eligible(ps, h) :
              FindLines[ps[l]].group = FindLines[ps[i]].group => j <= l

\* the place of the item at position j among the items under h
RankIn(ps, h, j) == Cardinality({l \in Eligible(ps, h) : l <= j})

\* findings and strengths, whichever was extracted
Extracted == findings \o strengths

\* C6: every Finding of extractFindings and extractStrengths has
\* instanceCount >= 1, equal to the number of its timestamps when there is
\* at least one, and 1 when there is none.
C6_InstanceCount ==
    \A k \in 1..Len(Extracted) :
        /\ Extracted[k].instanceCount >= 1
        /\ Len(Extracted[k].timestamps) >= 1
               => Extracted[k].instanceCount = Len(Extracted[k].timestamps)
        /\ Len(Extracted[k].timestamps) = 0 => Extracted[k].instanceCount = 1

\* an item without a timestamp beside an item with three
C6_Witness ==
    /\ pc \in {"findings", "strengths"}
    /\ \E a, b \in 1..Len(Extracted) :
          /\ Len(Extracted[a].timestamps) = 0
          /\ Len(Extracted[b].timestamps) = 3

\* C7 as stated: every title has at most 60 characters.
C7_TitleAtMost60 == \A k \in 1..Len(Extracted) : Len(Extracted[k].title) <= TitleLen

\* whether the item was written with a bold run
FromBold(f) ==
    \E i \in 1..Len(parts) :
        FindLines[parts[i]].bold /\ Includes(FindLines[parts[i]].str, f.description)

\* C7: a title taken from a bold run, and "Untitled Finding", have at most
\* 60 characters; a title taken from the first sentence has at most 63, the
\* first 60 characters of the sentence followed by "..." when it is longer.
C7_TitleAtMost63 ==
    \A k \in 1..Len(Extracted) :
        /\ Len(Extracted[k].title) <= TitleLen + 3
        /\ FromBold(Extracted[k]) => Len(Extracted[k].title) <= TitleLen
        /\ Len(Extracted[k].title) > TitleLen
               => /\ Len(Extracted[k].title) = TitleLen + 3
                  /\ SubSeq(Extracted[k].title, TitleLen + 1, TitleLen + 3) = "..."

\* a first sentence of more than 60 characters was cut, beside a title
\* taken from a bold run
C7_Witness ==
    /\ pc \in {"findings", "strengths"}
    /\ \E a, b \in 1..Len(Extracted) :
          /\ Len(Extracted[a].title) = TitleLen + 3
          /\ ~FromBold(Extracted[a])
          /\ FromBold(Extracted[b])

\* the items under the heading h, deduplicated: one per group, the first of
\* the group in document order
FirstOfEachGroup(out, h) ==
    /\ \A a, b \in 1..Len(out) :
          a # b => Substring(ToLower(out[a].title), 0, DedupKeyLen)
                       # Substring(ToLower(out[b].title), 0, DedupKeyLen)
    /\ Len(out) = Cardinality({FindLines[parts[i]].group : i \in Eligible(parts, h)})
    /\ \A i \in Eligible(parts, h) :
          \E a \in 1..Len(out) :
              /\ out[a].id = RankIn(parts, h, FirstOfGroup(parts, h, i))
              /\ Includes(FindLines[parts[FirstOfGroup(parts, h, i)]].str, out[a].description)

\* C8: in the output of extractFindings and of extractStrengths no two items
\* have titles with the same lowercased first 30 characters, and of the
\* items that collide the first in document order is the one kept.
C8_Deduplicated ==
    /\ pc = "findings" => FirstOfEachGroup(findings, 1)
    /\ pc = "strengths" => FirstOfEachGroup(strengths, 2)

\* a later item was dropped for an earlier one of the same key
C8_Witness ==
    /\ pc = "findings"
    /\ Len(findings) < Cardinality(Eligible(parts, 1))
    /\ \E a \in 1..Len(findings) : findings[a].title = "Drops hands"

\* whether out is in non-decreasing order of earliest timestamp, the items
\* without a timestamp last
Chronological(out) ==
    \A a, b \in 1..Len(out) :
        (a < b /\ Len(out[b].timestamps) > 0) =>
            /\ Len(out[a].timestamps) > 0
            /\ \E s \in 1..Len(out[a].timestamps) :
                  \A t \in 1..Len(out[b].timestamps) :
                      out[a].timestamps[s].seconds <= out[b].timestamps[t].seconds

\* C9: the findings are in non-decreasing order of earliest timestamp, the
\* items without a timestamp after all the others.
C9_FindingsChronological == pc = "findings" => Chronological(findings)

\* items written at seconds 50, 10 and 30 come out as 10, 30, 50
C9_Witness ==
    /\ pc = "findings"
    /\ [i \in 1..Len(parts) |-> FindLines[parts[i]].marks]
           = << <<>>, <<50>>, <<45, 50, 10>>, <<30>> >>
    /\ Len(findings) = 3
    /\ <<findings[1].id, findings[2].id, findings[3].id>> = <<2, 3, 1>>

\* C10 as stated: the strengths are in non-decreasing order of earliest
\* timestamp, the items without a timestamp last.
C10_StrengthsChronological == pc = "strengths" => Chronological(strengths)

\* C10: the strengths are in document order (section order, then line
\* order), whatever their timestamps.
C10_StrengthsInDocumentOrder ==
    pc = "strengths" =>
        \A a, b \in 1..Len(strengths) : a < b => strengths[a].id < strengths[b].id

\* a strength at second 50 comes out before one at second 10
C10_Witness ==
    /\ pc = "strengths"
    /\ [i \in 1..Len(parts) |-> FindLines[parts[i]].marks]
           = << <<>>, <<50>>, <<45, 50, 10>> >>
    /\ Len(strengths) = 2
    /\ <<strengths[1].id, strengths[2].id>> = <<1, 2>>

\* C11: every item of extractStrengths has severity "low" and confidence
\* "high", whatever keywords and however many timestamps its line holds.
C11_StrengthsLowHigh ==
    pc = "strengths" =>
        \A k \in 1..Len(strengths) :
            strengths[k].severity = "low" /\ strengths[k].confidence = "high"

\* a strength without a timestamp, which as a finding would have confidence
\* "low" and severity "high", beside one with three timestamps
C11_Witness ==
    /\ pc = "strengths"
    /\ \E a, b \in 1..Len(strengths) :
          /\ Len(strengths[a].timestamps) = 0
          /\ inferConfidence(strengths[a].description, 0) = "low"
          /\ inferSeverity("STRENGTHS", strengths[a].description, 1) = "high"
          /\ Len(strengths[b].timestamps) = 3

----------------------------------------------------------------------------
\* Properties of extractOverallAssessment, under SpecAssessment

\* the summary as written: the section's text without its label lines
Written == SummaryText(parts[1])

\* the offsets at which the summary was written with a sentence-ending character
WrittenMarks == {parts[1].marks[i] : i \in 1..Len(parts[1].marks)}

\* C12: the summary of the overall assessment has at most 1500 characters.
C12_SummaryAtMost1500 ==
    pc = "assessment" => Len(assessment.summary) <= SummaryMax

\* the greatest offset of at most 1500 with a sentence-ending character, -1
\* when there is none
LastBoundary ==
    IF \E m \in WrittenMarks : m <= SummaryMax
    THEN CHOOSE m \in WrittenMarks :
            m <= SummaryMax /\ \A n \in WrittenMarks : n <= SummaryMax => n <= m
    ELSE -1

\* the rule of the cut: a text of more than 1500 characters ends just after
\* its last sentence-ending character at an offset of at most 1500 when that
\* offset is above 500, and is its first 1500 characters otherwise
C12_CutRule ==
    pc = "assessment" =>
        assessment.summary =
            Bind(Written, LAMBDA w :
                 IF Len(w) <= SummaryMax THEN w
                 ELSE IF LastBoundary > GoodBoundary THEN Substring(w, 0, LastBoundary + 1)
                 ELSE Substring(w, 0, SummaryMax))

\* C13: a summary of exactly 1600 characters without a sentence-ending
\* character before offset 1500 is cut to exactly 1500 characters.
C13_HardCutAt1500 ==
    (/\ pc = "assessment"
     /\ parts[1].len = 1600
     /\ \A m \in WrittenMarks : m >= SummaryMax)
        => Len(assessment.summary) = SummaryMax

\* the same with no such character at offset 1500 either
C13_HardCutNoBoundary ==
    (/\ pc = "assessment"
     /\ parts[1].len = 1600
     /\ \A m \in WrittenMarks : m > SummaryMax)
        => Len(assessment.summary) = SummaryMax

----------------------------------------------------------------------------
\* Properties of extractDecisionTree, under SpecDecision

\* the report whose DECISION TREE section has the one line
\* "- IF **jabs lazily** THEN **slip outside** [0:12]"
JabsLazily == pc = "tree" /\ parts = <<1, 4>>

\* C20 as stated: that section yields exactly one node, with trigger "jabs
\* lazily", response "slip outside" and a timestamp of 12 seconds.
C20_SlipOutside ==
    JabsLazily =>
        /\ Len(nodes) = 1
        /\ nodes[1].trigger = "jabs lazily"
        /\ nodes[1].response = "slip outside"
        /\ Len(nodes[1].timestamp) = 1 /\ nodes[1].timestamp[1].seconds = 12

\* C20: that section yields exactly one node, with trigger "jabs lazily",
\* a timestamp of 12 seconds, and as response the rest of the line after
\* THEN as written, bold markers and time marker included.
C20_ResponseVerbatim ==
    JabsLazily =>
        /\ Len(nodes) = 1
        /\ nodes[1].trigger = "jabs lazily"
        /\ nodes[1].response = "**slip outside** [0:12]"
        /\ Len(nodes[1].timestamp) = 1 /\ nodes[1].timestamp[1].seconds = 12

C20_Witness ==
    JabsLazily /\ text = "## DECISION TREE\n- IF **jabs lazily** THEN **slip outside** [0:12]"

----------------------------------------------------------------------------
\* Properties of parseSelfScoutReport, under SpecReport

\* the kinds of the blocks the text was written from
WrittenKinds == {ReportBlocks[parts[i]].kind : i \in 1..Len(parts)}

\* whether a block of the text has Level and Archetype labels
WrittenLabels == \E i \in 1..Len(parts) : ReportBlocks[parts[i]].labelled

Warnings(r) == {r.metadata.validationWarnings[k] : k \in 1..Len(r.metadata.validationWarnings)}

\* C14: on the empty string parseSelfScoutReport returns a report with no
\* sections, no findings, no strengths, the default overall assessment
\* ("Unknown", "Unknown", "No assessment available.") and, among its
\* validation warnings, the one that says no strengths were identified.
C14_EmptyInput ==
    text = "" =>
        \A k \in 1..Len(reports) :
            /\ reports[k].sections = <<>>
            /\ reports[k].findings = <<>>
            /\ reports[k].strengths = <<>>
            /\ reports[k].overallAssessment =
                  [level |-> "Unknown", archetype |-> "Unknown",
                   summary |-> "No assessment available."]
            /\ "No strengths were identified in this analysis." \in Warnings(reports[k])

C14_Witness == text = "" /\ pc = "report" /\ Len(reports) = 1

\* what the report holds for the kinds of section the text lacks: empty
\* collections and the default summary
DegradesToEmpty(r) ==
    /\ "findings" \notin WrittenKinds => r.findings = <<>>
    /\ "strengths" \notin WrittenKinds => r.strengths = <<>>
    /\ "improvements" \notin WrittenKinds => r.priorityImprovements = <<>>
    /\ "gameplan" \notin WrittenKinds => r.opponentGamePlan = <<>>
    /\ "assessment" \notin WrittenKinds =>
          r.overallAssessment.summary = "No assessment available."

\* every call made so far has returned a report, with all its fields
EveryCallReturned ==
    /\ Len(reports) = (CASE pc = "input" -> 0 [] pc = "report" -> 1 [] pc = "again" -> 2)
    /\ \A k \in 1..Len(reports) :
          DOMAIN reports[k] =
              {"id", "generatedAt", "analysisType", "overallAssessment", "findings",
               "strengths", "priorityImprovements", "opponentGamePlan", "sections",
               "timestamps", "metadata", "rawContent"}

LimitedFindings(r) ==
    {k \in 1..Len(r.findings) :
        r.findings[k].instanceCount < 2 /\ r.findings[k].confidence # "inconclusive"}

CriticalFindings(r) == {k \in 1..Len(r.findings) : r.findings[k].severity = "critical"}

\* the three warnings a report can carry, in the order they are issued
ExpectedWarnings(r) ==
    (IF LimitedFindings(r) # {}
     THEN <<NatToStr(Cardinality(LimitedFindings(r)))
                \o " finding(s) have limited timestamp evidence.">>
     ELSE <<>>)
        \o (IF r.strengths = <<>>
            THEN <<"No strengths were identified in this analysis.">> ELSE <<>>)
        \o (IF Cardinality(CriticalFindings(r)) > 5
            THEN <<"High number of critical findings - review may be over-sensitive.">>
            ELSE <<>>)

\* C16: the validation warnings hold the limited-evidence warning, with the
\* count, exactly when some finding has fewer than two instances and a
\* confidence other than inconclusive; the no-strengths warning exactly
\* when there are no strengths; the over-sensitivity warning exactly when
\* more than five findings are critical; and nothing else.
C16_WarningRules ==
    \A k \in 1..Len(reports) :
        reports[k].metadata.validationWarnings = ExpectedWarnings(reports[k])

\* a report that carries exactly the warnings chosen
Produces(limited, noStrengths, overSensitive) ==
    /\ pc = "report"
    /\ (\E w \in Warnings(reports[1]) :
           Len(w) > 44
              /\ SubSeq(w, Len(w) - 43, Len(w)) = " finding(s) have limited timestamp evidence.")
          <=> limited
    /\ "No strengths were identified in this analysis." \in Warnings(reports[1])
          <=> noStrengths
    /\ "High number of critical findings - review may be over-sensitive."
          \in Warnings(reports[1]) <=> overSensitive

\* the over-sensitivity warning alone: six critical findings, all written as
\* unclear, beside a strength
C16_Witness ==
    /\ Produces(FALSE, FALSE, TRUE)
    /\ \E i \in 1..Len(parts) :
          ReportBlocks[parts[i]].critical = 6 /\ ReportBlocks[parts[i]].weak = 0

\* C17: the metadata counts are the numbers of findings of each severity,
\* totalFindings is the number of findings, and the four counts add up to it.
C17_SeverityCounts ==
    \A k \in 1..Len(reports) :
        /\ reports[k].metadata.totalFindings = Len(reports[k].findings)
        /\ reports[k].metadata.criticalCount = Cardinality(CriticalFindings(reports[k]))
        /\ \A sev \in {"high", "medium", "low"} :
              (CASE sev = "high" -> reports[k].metadata.highCount
                 [] sev = "medium" -> reports[k].metadata.mediumCount
                 [] sev = "low" -> reports[k].metadata.lowCount)
                 = Cardinality({i \in 1..Len(reports[k].findings) :
                                   reports[k].findings[i].severity = sev})
        /\ reports[k].metadata.criticalCount + reports[k].metadata.highCount
              + reports[k].metadata.mediumCount + reports[k].metadata.lowCount
              = reports[k].metadata.totalFindings

\* a report with findings of all four severities
C17_Witness ==
    /\ pc = "report"
    /\ reports[1].metadata.criticalCount > 1
    /\ reports[1].metadata.highCount > 0
    /\ reports[1].metadata.mediumCount > 0
    /\ reports[1].metadata.lowCount > 0

\* the time markers written in the text, in the order of the text
RECURSIVE MarksFrom(_)
MarksFrom(i) ==
    IF i > Len(parts) THEN <<>> ELSE ReportBlocks[parts[i]].marks \o MarksFrom(i + 1)

ReportMarks == MarksFrom(1)

\* the place of the k-th written marker in a stable ascending order: behind
\* the markers of fewer seconds and the earlier ones of the same seconds
PlaceOf(w, k) ==
    Cardinality({j \in 1..Len(w) : w[j].seconds < w[k].seconds})
        + Cardinality({j \in 1..k : w[j].seconds = w[k].seconds})

\* C18: the report's timestamps are the time markers of the raw text, every
\* one of them, in ascending order of seconds, markers of equal seconds in
\* the order of the text.
C18_TimestampsStableSorted ==
    \A k \in 1..Len(reports) :
        /\ Len(reports[k].timestamps) = Len(ReportMarks)
        /\ \A i \in 1..Len(ReportMarks) :
              /\ reports[k].timestamps[PlaceOf(ReportMarks, i)].time = ReportMarks[i].time
              /\ reports[k].timestamps[PlaceOf(ReportMarks, i)].seconds
                    = ReportMarks[i].seconds

\* two markers of equal seconds written in different ways, the earlier one
\* of the text first, behind markers written after them
C18_Witness ==
    /\ pc = "report"
    /\ \E i \in 1..(Len(reports[1].timestamps) - 1) :
          /\ reports[1].timestamps[i].seconds = reports[1].timestamps[i + 1].seconds
          /\ reports[1].timestamps[i].time = "1:05"
          /\ reports[1].timestamps[i + 1].time = "0:65"
          /\ i > 1

\* a report without what differs from call to call: its identifier, the
\* identifiers of its findings and strengths, and the time it was made
NoIds(fs) == [i \in 1..Len(fs) |-> [fs[i] EXCEPT !.id = 0]]

Comparable(r) ==
    [r EXCEPT !.id = 0, !.generatedAt = 0,
              !.findings = NoIds(@), !.strengths = NoIds(@)]

RECURSIVE SectionSeconds(_, _)
SectionSeconds(secs, k) ==
    IF k > Len(secs) THEN <<>>
    ELSE [i \in 1..Len(secs[k].timestamps) |-> secs[k].timestamps[i].seconds]
             \o SectionSeconds(secs, k + 1)

----------------------------------------------------------------------------
\* Properties of the items of one section, under SpecItems

\* the two lines of the section as written
WrittenLines == {ItemLines[parts[2]], ItemLines[parts[4]]}

\* the confidence the rule gives a line as written
RuleConfidence(w) ==
    IF w.conf # "" THEN w.conf
    ELSE IF w.marks >= 3 THEN "high"
    ELSE IF w.marks >= 1 THEN "medium"
    ELSE "low"

\* C21: every finding has the confidence its line's explicit keyword names,
\* "inconclusive" before "low confidence" and both before the evidence
\* count; without a keyword it is "high" with three or more timestamps,
\* "medium" with one or two and "low" with none, so that a finding of
\* confidence "high" has instanceCount >= 3.
C21_ConfidenceRule ==
    pc = "findings" =>
        \A k \in 1..Len(findings) :
            /\ \E w \in WrittenLines :
                  /\ w.finding = findings[k].description
                  /\ findings[k].confidence = RuleConfidence(w)
                  /\ Len(findings[k].timestamps) = w.marks
            /\ findings[k].confidence = "high" => findings[k].instanceCount >= 3

\* the line with [0:45], [2:12] gave instanceCount 2 and confidence
\* "medium", beside a line with "low confidence" and three timestamps
C21_Witness ==
    /\ pc = "findings"
    /\ \E a, b \in 1..Len(findings) :
          /\ findings[a].instanceCount = 2
          /\ findings[a].confidence = "medium"
          /\ <<findings[a].timestamps[1].seconds, findings[a].timestamps[2].seconds>>
                 = <<45, 132>>
          /\ Len(findings[b].timestamps) = 3
          /\ findings[b].confidence = "low"

\* a line with both keywords is "inconclusive", as is one with "unclear"
\* and three timestamps
C21_WitnessOverride ==
    /\ pc = "findings"
    /\ \E a, b \in 1..Len(findings) :
          /\ Includes(ToLower(findings[a].description), "low confidence")
          /\ findings[a].confidence = "inconclusive"
          /\ Len(findings[b].timestamps) = 3
          /\ findings[b].confidence = "inconclusive"

\* the positions of parts that hold the two lines, and the one the finding
\* f was made of: the first of the two when both are the same line
LinePlaces == {2, 4}
PlaceOfItem(f) ==
    CHOOSE i \in LinePlaces :
        /\ ItemLines[parts[i]].finding = f.description
        /\ \A j \in LinePlaces : ItemLines[parts[j]].finding = f.description => i <= j

\* the 0-based position of the line at place i among the items of the
\* list, and among the lines of the section's content
ListIndex(i) == Cardinality({j \in LinePlaces : j < i /\ ItemLines[parts[j]].finding # ""})
ContentIndex(i) == IF i = 2 THEN 0 ELSE parts[3] + 1

\* the severity the rule gives the line at place i when its position is index
RuleSeverity(i, index) ==
    IF ItemTitles[parts[1]] = "## MAJOR HOLES" \/ ItemLines[parts[i]].sev = "critical"
    THEN "critical"
    ELSE IF ItemLines[parts[i]].sev # "" THEN ItemLines[parts[i]].sev
    ELSE IF index <= 2 THEN "high"
    ELSE IF index <= 5 THEN "medium"
    ELSE "low"

\* C22: the severity of every finding is the one its section title and line
\* text name by keyword, critical before high before low, and otherwise the
\* one of the item's position in the list: high for the items 0..2, medium
\* for 3..5, low for the later ones.
C22_SeverityByListPosition ==
    pc = "findings" =>
        \A k \in 1..Len(findings) :
            findings[k].severity
                = RuleSeverity(PlaceOfItem(findings[k]), ListIndex(PlaceOfItem(findings[k])))

\* the same with the position of the line among all the lines of the
\* section's content, the blank ones included
C22_SeverityByContentIndex ==
    pc = "findings" =>
        \A k \in 1..Len(findings) :
            findings[k].severity
                = RuleSeverity(PlaceOfItem(findings[k]), ContentIndex(PlaceOfItem(findings[k])))

\* the second item of a list, written after two blank lines, is "medium"
C22_SecondItemMedium ==
    /\ pc = "findings"
    /\ parts[3] = 2
    /\ \E k \in 1..Len(findings) :
          /\ PlaceOfItem(findings[k]) = 4
          /\ ListIndex(4) = 1
          /\ findings[k].severity = "medium"

\* the items returned for the section, and whether its heading makes it a
\* candidate section of the function that ran
ItemsOut == IF pc = "findings" THEN findings ELSE strengths
Candidate ==
    \/ pc = "findings" /\ ItemTitles[parts[1]] \in {"## WEAKNESSES", "## MAJOR HOLES"}
    \/ pc = "strengths" /\ ItemTitles[parts[1]] = "## STRENGTHS"

\* whether the line w as written is an item: it begins with a bullet or a
\* number and a dot, has more than 15 characters and more than 10 after
\* that prefix
WrittenAsItem(w) == w.leading # "none" /\ Len(Trim(w.str)) > 15 /\ Len(w.body) > 10

\* C23: the lines of a candidate section that become a Finding are those
\* that begin with a bullet or a numbered prefix and are long enough (more
\* than 15 characters, more than 10 after the prefix); the description of
\* the Finding is the line without that leading prefix.
C23_LeadingPrefixOnly ==
    Candidate =>
        /\ \A k \in 1..Len(ItemsOut) :
              \E w \in WrittenLines : WrittenAsItem(w) /\ ItemsOut[k].description = w.body
        /\ \A w \in WrittenLines :
              WrittenAsItem(w) => \E k \in 1..Len(ItemsOut) : ItemsOut[k].description = w.body

\* what the code makes of the line w: w.finding or w.strength
MadeOf(w) == IF pc = "findings" THEN w.finding ELSE w.strength

\* the items returned are those the table of lines names, a line with a
\* number and a dot inside it among them
C23_ItemsMade ==
    pc \in {"findings", "strengths"} =>
        /\ \A k \in 1..Len(ItemsOut) :
              Candidate /\ \E w \in WrittenLines : ItemsOut[k].description = MadeOf(w)
        /\ \A w \in WrittenLines :
              (Candidate /\ MadeOf(w) # "")
                  => \E k \in 1..Len(ItemsOut) : ItemsOut[k].description = MadeOf(w)

\* a line that begins with a word became a finding, without its number
C23_InnerNumberItem ==
    /\ pc = "findings"
    /\ \E k \in 1..Len(findings) : findings[k].description = "Round He drops his guard"

\* C24: the counterEvidence of every finding is the text that follows the
\* contrastive marker of its line (however, but, except, although,
\* counter-evidence:), and is undefined when the line holds no marker.
C24_TextAfterMarker ==
    pc = "findings" =>
        \A k \in 1..Len(findings) :
            \E w \in WrittenLines :
                /\ w.finding = findings[k].description
                /\ findings[k].counterEvidence
                       = IF w.marker = "" THEN <<>> ELSE <<w.after>>

\* the same with a capture for the marker "counter-evidence" only, and only
\* when none of the other four words stands before it
C24_CounterEvidenceOnly ==
    pc = "findings" =>
        \A k \in 1..Len(findings) :
            \E w \in WrittenLines :
                /\ w.finding = findings[k].description
                /\ findings[k].counterEvidence
                       = IF w.marker = "counter-evidence:" THEN <<w.after>> ELSE <<>>

\* a finding whose line holds "however" has no counterEvidence, beside one
\* whose line holds "Counter-evidence:" and has what follows it
C24_HoweverUndefined ==
    /\ pc = "findings"
    /\ \E a, b \in 1..Len(findings) :
          /\ Includes(findings[a].description, "however sharp")
          /\ findings[a].counterEvidence = <<>>
          /\ findings[b].counterEvidence = <<"clean exits late">>

----------------------------------------------------------------------------
\* Properties of categorizeTimestampContext, under SpecCategories

\* the places of parts that hold a marker, in order
MarkerPlaces == SelectSeq([i \in 1..Len(parts) |-> i], LAMBDA i : CtxPieces[parts[i]].marker)

\* the index in the text of the piece at place k
OffsetOf(k) == IF k = 1 THEN 0
               ELSE Len(WordsText(CtxPieces, SubSeq(parts, 1, k - 1))) + 1

\* the keyword sets that have a word in the context of the marker at place
\* m: the words whose keyword lies within the 50 characters before the
\* marker or within the 50 characters from its start
CatsAround(m) ==
    {CtxPieces[parts[k]].cat : k \in {j \in 1..Len(parts) :
        /\ CtxPieces[parts[j]].kw > 0
        /\ OffsetOf(j) >= OffsetOf(m) - 50
        /\ OffsetOf(j) + CtxPieces[parts[j]].kw <= OffsetOf(m) + 50}}

\* the first of the keyword sets, in the fixed order, among cats
FirstCategory(cats) ==
    IF "striking" \in cats THEN "striking"
    ELSE IF "grappling" \in cats THEN "grappling"
    ELSE IF "defensive" \in cats THEN "defensive"
    ELSE IF "pattern" \in cats THEN "pattern"
    ELSE "other"

\* C25: the category of every Timestamp is that of the first keyword set,
\* in the order striking, grappling, defensive, pattern, with a word in its
\* context, and "other" when none has one; it is never "mental",
\* "movement" or "cardio".
C25_FirstKeywordSetWins ==
    pc = "timestamps" =>
        /\ Len(timestamps) = Len(MarkerPlaces)
        /\ \A j \in 1..Len(timestamps) :
              /\ timestamps[j].category = FirstCategory(CatsAround(MarkerPlaces[j]))
              /\ timestamps[j].category \notin {"mental", "movement", "cardio"}

\* a marker after a grappling word and before a striking word is "striking"
C25_Witness ==
    /\ pc = "timestamps"
    /\ Len(timestamps) = 1
    /\ CtxPieces[parts[1]].cat = "grappling"
    /\ CtxPieces[parts[Len(parts)]].cat = "striking"
    /\ timestamps[1].category = "striking"

\* a marker beside the words "mental cardio" is "other", and so is one
\* with a striking word beyond a rule of 50 characters
C25_WitnessOther ==
    /\ pc = "timestamps"
    /\ Len(timestamps) = 1
    /\ timestamps[1].category = "other"
    /\ \/ \E k \in 1..Len(parts) : CtxPieces[parts[k]].str = "mental cardio"
       \/ /\ CtxPieces[parts[1]].cat = "striking"
          /\ CtxPieces[parts[2]].far

----------------------------------------------------------------------------
\* Properties of the loop of parseReportSections, under SpecParser

\* the lines of seq without the white space around them
TrimAll(seq) == [k \in 1..Len(seq) |-> Trim(seq[k])]

\* the loop and the end of the function give what the function gives
ParserAgrees == pc = "parsed" => sections = parseReportSections(text)

\* the result holds every body line once, in document order
NoLineLostOrDoubled ==
    pc = "parsed" =>
        /\ TrimAll(SelectSeq(ContentLinesFrom(sections, 1), LAMBDA l : Trim(l) # ""))
               = [k \in 1..Len(BodyLines) |-> Trim(SecLines[BodyLines[k]].str)]
        /\ Len(sections) = Cardinality(Starts(parts))
        /\ \A k \in 1..Len(sections) :
              sections[k].title = WrittenTitle(parts, NthStart(parts, k))

\* the section open after the last line is the last one of the result
LastSectionIncluded ==
    (pc = "parsed" /\ currentSection # <<>>) =>
        /\ sections # <<>>
        /\ sections[Len(sections)].id = currentSection[1].id
        /\ sections[Len(sections)].title = currentSection[1].title
        /\ sections[Len(sections)].content = Trim(currentSection[1].content)

\* a section is open from the first heading or body line on
OpenOnceStarted ==
    (pc = "input" /\ \E i \in 1..lineNo : LineKind(parts, i) # "blank")
        => currentSection # <<>>

\* C26: every line of the input that is neither blank nor a heading is, the
\* white space around it aside, a line of the content of exactly one
\* section; the sections and their lines are in document order; once a
\* section is open the parser never is without an open section again; and
\* the section open after the last line is finalized and returned.
C26_NoLossNoReturn ==
    /\ [](NoLineLostOrDoubled /\ LastSectionIncluded /\ OpenOnceStarted)
    /\ [][currentSection # <<>> => currentSection' # <<>>]_vars

\* a preamble line, a heading and a body line gave two sections, the
\* second one open after the last line
C26_Witness ==
    /\ pc = "parsed"
    /\ Len(parts) = 3
    /\ HasPreamble(parts)
    /\ LineKind(parts, 2) \in {"h2", "bold"}
    /\ LineKind(parts, 3) = "content"
    /\ Len(sections) = 2
    /\ currentSection # <<>>
    /\ sections[2].content # ""

----------------------------------------------------------------------------
\* Properties of the timestamps of a report, under SpecMarks

\* how many elements of the sequence of numbers seq are v
CountOf(seq, v) == Cardinality({i \in 1..Len(seq) : seq[i] = v})

\* the seconds of the top-level timestamps of the report r
TopSeconds(r) == [i \in 1..Len(r.timestamps) |-> r.timestamps[i].seconds]

\* the time markers written on heading lines: each such line of the table
\* holds the one marker [0:10]
HeadingMarks == Cardinality({i \in 1..Len(parts) : /\ LineKind(parts, i) \in {"h2", "bold"}
                                                   /\ SecLines[parts[i]].marks = 1})

\* C30: in every report the timestamps of the sections are, counted by
\* their seconds, among the top-level timestamps, and the top-level list
\* has beyond them exactly the timestamps of the heading lines.
C30_SectionTimestampsContained ==
    \A k \in 1..Len(reports) :
        Bind(SectionSeconds(reports[k].sections, 1), LAMBDA inSections :
        Bind(TopSeconds(reports[k]), LAMBDA top :
             /\ Len(top) >= Len(inSections)
             /\ Len(top) = Len(inSections) + HeadingMarks
             /\ \A v \in {top[i] : i \in 1..Len(top)} \cup {inSections[i] : i \in 1..Len(inSections)} :
                   CountOf(top, v) = CountOf(inSections, v) + (IF v = 10 THEN HeadingMarks ELSE 0)))

\* a report with a marker on a heading line and one in the body under it
C30_Witness ==
    /\ pc = "report"
    /\ HeadingMarks = 1
    /\ Len(reports[1].timestamps) = 2
    /\ Len(SectionSeconds(reports[1].sections, 1)) = 1

----------------------------------------------------------------------------
\* Properties of generateReportFromTemplate, under SpecGenerate

\* the report types that have a template
TemplateTypes == {"SELF_SCOUT_FULL", "SELF_SCOUT_QUICK", "SELF_SCOUT_PROGRESS",
                  "OPPONENT_BREAKDOWN_FULL", "OPPONENT_BREAKDOWN_QUICK", "GAME_PLAN_FULL",
                  "GAME_PLAN_QUICK", "FIGHT_SCORING", "EVIDENCE_EXTRACTION"}

\* the video inputs the template of type t requires, in its order
RequiredOf(t) ==
    IF t \in {"SELF_SCOUT_FULL", "SELF_SCOUT_QUICK", "SELF_SCOUT_PROGRESS"} THEN <<"userVideo">>
    ELSE IF t \in {"GAME_PLAN_FULL", "GAME_PLAN_QUICK"} THEN <<"opponentVideo", "userVideo">>
    ELSE <<"opponentVideo">>

\* whether the list passed for the input req is empty or absent
NotPassed(req) ==
    IF req = "userVideo" THEN options.userVideos \in {<<>>, <<0>>}
    ELSE options.opponentVideos \in {<<>>, <<0>>}

\* the message that names the required inputs not passed
MissingMessage ==
    Bind(SelectSeq(RequiredOf(options.reportType), NotPassed), LAMBDA m :
         "Missing required inputs: "
             \o (IF Len(m) = 2 THEN m[1] \o ", " \o m[2] ELSE m[1]))

Untouched == effects.read = 0 /\ effects.asked = 0

\* the three failures, for a call past its first step
FailuresInOrder ==
    /\ (pc # "getPrompt" /\ options.reportType \notin TemplateTypes) =>
           /\ pc = "threw"
           /\ thrown = <<[name |-> "Error",
                          message |-> "Unknown report type: " \o options.reportType]>>
           /\ ~effects.validated
           /\ Untouched
    /\ (pc \notin {"getPrompt", "validate"} /\ options.reportType \in TemplateTypes
            /\ \E r \in 1..Len(RequiredOf(options.reportType)) :
                   NotPassed(RequiredOf(options.reportType)[r])) =>
           /\ pc = "threw"
           /\ thrown = <<[name |-> "Error", message |-> MissingMessage]>>
           /\ Untouched
    /\ effects.response = "empty" =>
           /\ pc = "threw"
           /\ thrown = <<[name |-> "Error", message |-> "No report generated."]>>

\* C28: a call with a report type that has no template fails with "Unknown
\* report type" before the inputs are validated; a call whose template
\* requires a video input that is empty or absent fails with "Missing
\* required inputs" and the names of exactly those inputs; both fail before
\* a file is read or the model is called; and an empty response of the
\* model fails with "No report generated.".
C28_FailuresInOrder == FailuresInOrder

\* the same for the report types that are not keys PROMPTS inherits
C28_OwnKeysOnly == options.reportType \notin {"constructor", "toString"} => FailuresInOrder

\* the type "constructor" fails in the validation, with a TypeError
C28_InheritedKeyFails ==
    /\ options.reportType = "constructor"
    /\ pc = "threw"
    /\ thrown = <<NotIterable>>
    /\ Untouched

----------------------------------------------------------------------------
\* Properties of the hook useSelfScout, under SpecScout

\* the place of a stage among the four a call moves through, 0 for the others
StageRank(stage) ==
    IF stage = "uploading" THEN 1
    ELSE IF stage = "analyzing" THEN 2
    ELSE IF stage = "parsing" THEN 3
    ELSE IF stage = "complete" THEN 4
    ELSE 0

\* a change of progress while a call runs: the first stage, the next stage
\* with a percent that is not less, or the error that ends the call
StageStep ==
    progress' # progress =>
        IF isAnalyzing
        THEN \/ /\ progress'.stage = "uploading"
                /\ progress.stage \in {"idle", "complete", "error"}
             \/ /\ StageRank(progress.stage) >= 1
                /\ StageRank(progress'.stage) = StageRank(progress.stage) + 1
                /\ progress'.percent >= progress.percent
             \/ /\ progress'.stage = "error"
                /\ progress'.percent = 0
                /\ ~isAnalyzing'
        ELSE progress' = [stage |-> "idle", message |-> "", percent |-> 0]

\* stage complete is set with the parsed report of this response already
\* in storage
ReachesComplete ==
    (progress'.stage = "complete" /\ progress.stage # "complete") =>
        /\ progress.stage = "parsing"
        /\ storage # <<>>
        /\ storage[1].parses
        /\ storage[1].value.rawContent = text
        /\ storage[1].value.analysisType = input.analysisType
        /\ storage' = storage

\* at stage complete the storage holds a report, the one the hook returns
CompleteAfterStored ==
    progress.stage = "complete" =>
        /\ storage # <<>>
        /\ storage[1].parses
        /\ report # <<>> => storage[1].value = [report[1] EXCEPT !.generatedAt = <<"iso", @>>]

\* a settled call: not analyzing, a report at stage complete or an error
\* at stage error, never both and never neither
SettledOneOutcome ==
    pc = "settled" =>
        /\ ~isAnalyzing
        /\ (report = <<>>) # (error = <<>>)
        /\ report # <<>> => progress.stage = "complete" /\ progress.percent = 100
        /\ error # <<>> => /\ progress.stage = "error"
                           /\ progress.percent = 0
                           /\ progress.message = error[1].message

\* C29: one call of analyze moves progress.stage through uploading,
\* analyzing, parsing and complete in that order with a percent that never
\* decreases, or ends in stage error with percent 0; stage complete is
\* reached only after the parsed report has been written to local storage;
\* and once the call has settled isAnalyzing is false and exactly one of
\* report and error is not null.
C29_StagesInOrder ==
    [](CompleteAfterStored /\ SettledOneOutcome) /\ [][StageStep /\ ReachesComplete]_vars

\* a second call that completed after the first had failed
C29_Witness ==
    /\ pc = "settled"
    /\ calls = 2
    /\ report # <<>>
    /\ error = <<>>
    /\ progress.stage = "complete"
    /\ storage # <<>>

\* a call that failed when a file could not be read
C29_WitnessError ==
    /\ pc = "settled"
    /\ report = <<>>
    /\ error = <<[name |-> "Error", message |-> "Analysis failed"]>>
    /\ progress = [stage |-> "error", message |-> "Analysis failed", percent |-> 0]
    /\ effects.read = 1

\* a call that failed after stage parsing, when the report could not be stored
C29_WitnessNotStored ==
    /\ pc = "settled"
    /\ error # <<>>
    /\ error[1].name = "QuotaExceededError"
    /\ progress.stage = "error"
    /\ effects.response = "text"

====
